---- MODULE Spec2Model ----
(***************************************************************************)
(* A model of the remote-data-access core of Ecosvery:                     *)
(*   - the TTL cache over sessionStorage   (src/src/utils/apiHelpers.ts)   *)
(*   - fetchWithTimeout and fetchWithRetry (src/src/utils/apiHelpers.ts)   *)
(*   - the UniProt species-list parser and the single-flight loader        *)
(*                                         (src/unnamed/part_000)          *)
(*   - the iucnApi service operations      (src/src/utils/apiHelpers.ts)   *)
(* Each component has a specification of its own (SpecCache, SpecCacheRead,*)
(* SpecTimeout, SpecRetry, SpecLoader, SpecParser, SpecService) over the   *)
(* shared variables; a specification moves only the variables of its       *)
(* component and the clock.  SpecViews adds the two views that call the    *)
(* service (src/unnamed/part_001) and share its session store; SpecApp and *)
(* SpecHero are the components App (src/src/App.tsx) and HeroSection       *)
(* (src/src/components/HeroSection.tsx).                                   *)
(***************************************************************************)
EXTENDS Integers, Sequences, FiniteSets, TLC

VARIABLES
    now,            \* Date.now() / the timer clock, in ms
    store,          \* sessionStorage: key -> stored text
    cacheOp,        \* the last TTL-cache call and what it returned
    written,        \* per key, the last successful setCachedData (history)
    ft,             \* one fetchWithTimeout call
    fr,             \* one fetchWithRetry call (with its inner fetchWithTimeout)
    speciesCache,   \* part_000:11, a map object id, 0 for null
    cachePromise,   \* part_000:12, a promise id, 0 for null
    loads,          \* the promises made by loadUniProtSpeciesList, by id
    maps,           \* the Map objects allocated so far, by id
    callers,        \* the calls of getCommonName/getCommonNames/preloadUniProtData
    fetchCount,     \* network requests issued for the species list
    text,           \* the lines of a text handed to parseUniProtSpecList
    parsed,         \* whether it has been parsed, and the Map returned
    svc,            \* the calls of the iucnApi service operations
    views,          \* the runs of the views' data-loading effects
    app,            \* the App component: its state and its effects
    hero            \* the HeroSection component: selection, image, requests

cacheVars == <<store, cacheOp, written>>
loaderVars == <<speciesCache, cachePromise, loads, maps, callers, fetchCount>>
vars == <<now, store, cacheOp, written, ft, fr,
          speciesCache, cachePromise, loads, maps, callers, fetchCount,
          text, parsed, svc, views, app, hero>>

(***************************************************************************)
(* Bounds of the model.                                                    *)
(***************************************************************************)
\* Date.now() at the start of a run; positive, as the wall clock is.
Epoch == 1
\* The cache specification advances the clock 1 ms at a time up to here.
MaxCacheTime == 4
\* The largest ttl (ms) the cache specification passes to setCachedData.
MaxTtl == 2
\* The fetch specifications advance the clock by Quantum ms while it is below
\* MaxFetchTime, and otherwise straight to the next timer deadline.
Quantum == 500
MaxFetchTime == 1500
\* Calls of the service operations in one run, and the days the clock of
\* the service specification may run past Epoch.
MaxCalls == 2
MaxDays == 1
\* Runs of the views' data-loading effects in one run.
MaxViews == 2
\* The longest text (in lines) handed to the parser.
MaxLines == 4
\* The largest maxRetries the retry specification passes to fetchWithRetry.
MaxAttempts == 3
\* Calls of the loader's entry points in one run, and loads they may start.
MaxCallers == 3
MaxLoads == 2
\* Species selections made in HeroSection in one run.
MaxSelections == 3

(***************************************************************************)
(* JavaScript values that pass through the cache.                          *)
(***************************************************************************)
Undefined == [k |-> "undef"]
Null == [k |-> "null"]
Num(n) == [k |-> "num", n |-> n]
\* An array of [scientific, common] pairs, as [...map.entries()] builds it.
Entries(m) ==
    [k |-> "entries",
     pairs |-> {<<n, m[n]>> : n \in {x \in DOMAIN m : m[x] # ""}}]
\* A plain object (a Species page, an AssessmentDetail), named by its content.
Obj(o) == [k |-> "obj", o |-> o]

\* JavaScript truthiness: if (cached), if (data._timestamp), a || b.
Truthy(v) ==
    CASE v.k = "undef" -> FALSE
      [] v.k = "null" -> FALSE
      [] v.k = "num" -> v.n # 0
      [] v.k = "str" -> v.s # ""
      [] OTHER -> TRUE

(***************************************************************************)
(* sessionStorage holds strings.  A stored text is modelled by what        *)
(* JSON.parse makes of it:                                                 *)
(*   absent   no item under the key (getItem returns null)                 *)
(*   garbage  text JSON.parse throws on                                    *)
(*   null     the text "null": parses, but reading a property of it throws *)
(*   obj      a JSON object or array; has* say which of the properties     *)
(*            value, _timestamp, _ttl it carries                           *)
(*   denied   sessionStorage.getItem itself throws for the key (storage    *)
(*            not accessible)                                              *)
(***************************************************************************)
Keys == {"uniprot_species_list", "iucn_page_1", "iucn_assessment_1"}

Absent == [t |-> "absent"]
Garbage == [t |-> "garbage"]
JsonNull == [t |-> "null"]
Denied == [t |-> "denied"]
JsonObj(hasValue, value, hasTs, ts, hasTtl, ttl) ==
    [t |-> "obj", hasValue |-> hasValue, value |-> value,
     hasTs |-> hasTs, ts |-> ts, hasTtl |-> hasTtl, ttl |-> ttl]

\* A ttl option: absent (options.ttl undefined) or a number of ms.
NoTtl == [has |-> FALSE, n |-> 0]
Ttl(n) == [has |-> TRUE, n |-> n]

\* JSON.stringify({value, _timestamp, _ttl}): a property whose value is
\* undefined is left out of the text.
StringifyEnvelope(value, ts, ttl) ==
    JsonObj(value.k # "undef", value, TRUE, ts, ttl.has, ttl.n)

\* data.value / data._timestamp / data._ttl of the parsed object: a property
\* the text does not carry reads as undefined.
PropValue(item) == IF item.hasValue THEN item.value ELSE Undefined
PropTimestamp(item) == IF item.hasTs THEN Num(item.ts) ELSE Undefined
PropTtl(item) == IF item.hasTtl THEN Num(item.ttl) ELSE Undefined

EffectiveTtlZeroDefault(item) ==
    [inf |-> FALSE, n |-> IF item.hasTtl THEN item.ttl ELSE 0]
\* const ttl = data._ttl || Infinity   (apiHelpers.ts:136)
EffectiveTtl(item) ==
    IF Truthy(PropTtl(item)) THEN [inf |-> FALSE, n |-> item.ttl]
    ELSE [inf |-> TRUE, n |-> 0]

AgeExceedsInclusive(age, ttl) == ~ttl.inf /\ age >= ttl.n
\* age > ttl   (apiHelpers.ts:138)
AgeExceeds(age, ttl) == ~ttl.inf /\ age > ttl.n

\* if (data._timestamp) { ... if (age > ttl) ... }   (apiHelpers.ts:133-142)
IsExpired(item, t) ==
    /\ Truthy(PropTimestamp(item))
    /\ AgeExceeds(t - item.ts, EffectiveTtl(item))

\* The try block of getCachedData(key) at time t   (apiHelpers.ts:127-144):
\* the store afterwards, the value returned, or threw when a statement of
\* the block throws (getItem, JSON.parse, or reading a property of null).
TryRead(st, key, t) ==
    LET item == st[key] IN
    IF item.t = "denied" THEN [store |-> st, result |-> Undefined, threw |-> TRUE]
    ELSE IF item.t = "absent" THEN [store |-> st, result |-> Null, threw |-> FALSE]
    ELSE IF item.t \in {"garbage", "null"}
         THEN [store |-> st, result |-> Undefined, threw |-> TRUE]
    ELSE IF IsExpired(item, t)
         THEN [store |-> [st EXCEPT ![key] = Absent], result |-> Null,
               threw |-> FALSE]
    ELSE [store |-> st, result |-> PropValue(item), threw |-> FALSE]

CatchReadRethrows(r) == r
\* catch (error) { console.warn(...); return null; }   (apiHelpers.ts:145-148)
CatchRead(r) == IF r.threw THEN [r EXCEPT !.result = Null, !.threw = FALSE] ELSE r

GetCachedDataDropsUnreadable(st, key, t) ==
    LET r == TryRead(st, key, t) IN
    IF r.threw THEN [store |-> [st EXCEPT ![key] = Absent], result |-> Null,
                     threw |-> FALSE]
    ELSE r
GetCachedDataKeepsExpired(st, key, t) ==
    LET r == CatchRead(TryRead(st, key, t)) IN [r EXCEPT !.store = st]
\* getCachedData(key) at time t: the store afterwards and the value returned.
GetCachedData(st, key, t) == CatchRead(TryRead(st, key, t))

\* The try block of setCachedData(key, value, {ttl}) at time t
\* (apiHelpers.ts:157-162); ok = FALSE when JSON.stringify or setItem throws
\* (quota exceeded), and then nothing has been stored.
TryWrite(st, key, value, ttl, t, ok) ==
    IF ok THEN [store |-> [st EXCEPT ![key] = StringifyEnvelope(value, t, ttl)],
                threw |-> FALSE]
    ELSE [store |-> st, threw |-> TRUE]

CatchWriteRethrows(w) == w
\* catch (error) { console.warn(...); }   (apiHelpers.ts:163-165)
CatchWrite(w) == [w EXCEPT !.threw = FALSE]

\* setCachedData(key, value, {ttl}) at time t: the store afterwards, and
\* whether the call threw.
SetCachedData(st, key, value, ttl, t, ok) ==
    CatchWrite(TryWrite(st, key, value, ttl, t, ok))

(***************************************************************************)
(* Resilient fetch.  Errors and responses as the code sees them.           *)
(*   cls       the constructor: "ApiError", "TypeError"                    *)
(*   msg, n    the message template and the number it embeds               *)
(*   status, endpoint   ApiError's fields (has* FALSE: undefined)          *)
(*   from      history: the serial of the request the error stems from     *)
(***************************************************************************)
ApiError(msg, n, hasStatus, status, hasEndpoint, endpoint, from) ==
    [kind |-> "error", cls |-> "ApiError", msg |-> msg, n |-> n,
     hasStatus |-> hasStatus, status |-> status,
     hasEndpoint |-> hasEndpoint, endpoint |-> endpoint, from |-> from]
\* What fetch() itself rejects with when the transport fails.
NetworkError(from) ==
    [kind |-> "error", cls |-> "TypeError", msg |-> "Failed to fetch", n |-> 0,
     hasStatus |-> FALSE, status |-> 0,
     hasEndpoint |-> FALSE, endpoint |-> "", from |-> from]
\* A Response object; id names the object (the serial of its request).
Response(status, id) == [kind |-> "response", status |-> status, id |-> id]
\* response.ok
Ok(resp) == resp.status >= 200 /\ resp.status <= 299

DEFAULT_TIMEOUT == 30000
DEFAULT_RETRY_ATTEMPTS == 3
RETRY_DELAY_MS == 1000

Urls == {"/taxa/class/MAMMALIA", "/assessment/1"}
Statuses == {200, 304, 404, 500, 503}

\* No fetchWithTimeout call: the state before fetchWithTimeout is entered.
NoResult == [kind |-> "none"]
FTIdle == [pc |-> "idle", url |-> "", timeout |-> 0, startedAt |-> 0,
           timerActive |-> FALSE, deadline |-> 0, lateAbort |-> FALSE,
           serial |-> 0, event |-> "none", delivered |-> NoResult,
           result |-> NoResult]

\* fetchWithTimeout(url, options, timeout) entered at time t: the timer is
\* armed and fetch() is called   (apiHelpers.ts:28-35)
FTStart(url, timeout, t, serial) ==
    [pc |-> "pending", url |-> url, timeout |-> timeout, startedAt |-> t,
     timerActive |-> TRUE, deadline |-> t + timeout, lateAbort |-> FALSE,
     serial |-> serial, event |-> "none", delivered |-> NoResult,
     result |-> NoResult]

FTOnResponseKeepsTimer(c, resp) ==
    [c EXCEPT !.pc = "resolved", !.result = resp]
\* fetch resolved: clearTimeout, return response   (apiHelpers.ts:36-37)
FTOnResponse(c, resp) ==
    [c EXCEPT !.pc = "resolved", !.timerActive = FALSE, !.result = resp]

\* fetch rejected with a transport error e: clearTimeout, rethrow
\* (apiHelpers.ts:38-43; e.name is not 'AbortError')
FTOnError(c, e) ==
    [c EXCEPT !.pc = "rejected", !.timerActive = FALSE, !.result = e]

\* The timer callback runs: controller.abort()   (apiHelpers.ts:29).  While
\* the fetch is pending it rejects with an AbortError, which the catch turns
\* into the timeout ApiError (apiHelpers.ts:39-42); after the call has
\* settled the abort only marks the signal.
FTOnTimer(c) ==
    IF c.pc = "pending"
    THEN [c EXCEPT !.pc = "rejected", !.timerActive = FALSE,
                   !.result = ApiError("Request timeout after ms", c.timeout,
                                       FALSE, 0, TRUE, c.url, c.serial)]
    ELSE [c EXCEPT !.timerActive = FALSE, !.lateAbort = TRUE]

\* setTimeout: the callback is due once the clock has reached the deadline.
TimerDue(c, t) == c.timerActive /\ t >= c.deadline

\* The clock may move to t2 only if that passes no armed timer of c.
MayAdvance(c, t2) == c.timerActive => t2 <= c.deadline

(***************************************************************************)
(* fetchWithRetry(url, options, maxRetries)   (apiHelpers.ts:50-83)        *)
(*   attempt, lastError   the function's locals                            *)
(*   inner                the fetchWithTimeout call of the current attempt *)
(*   wakeAt               deadline of the backoff timer                    *)
(* history: requests (fetchWithTimeout calls made), delays (the backoff    *)
(* waits started, in order), lastEvent (what the last settled attempt      *)
(* produced), settledAt (when it settled).                                 *)
(***************************************************************************)
RECURSIVE Pow2(_)
\* Math.pow(2, k)
Pow2(k) == IF k <= 0 THEN 1 ELSE 2 * Pow2(k - 1)

DelayNoBackoff(attempt) == RETRY_DELAY_MS
\* RETRY_DELAY_MS * Math.pow(2, attempt)   (apiHelpers.ts:77)
Delay(attempt) == RETRY_DELAY_MS * Pow2(attempt)

AcceptsOnlyOk(resp) == Ok(resp)
\* response.ok || (response.status >= 400 && response.status < 500)
\* (apiHelpers.ts:62)
Accepts(resp) == Ok(resp) \/ (resp.status >= 400 /\ resp.status < 500)

RecordErrorKeepsFirst(c, e) ==
    IF c.lastError = NoResult THEN [c EXCEPT !.lastError = e] ELSE c
\* lastError = ...   (apiHelpers.ts:66-70, 72)
RecordError(c, e) == [c EXCEPT !.lastError = e]

\* args is what the caller handed to fetchWithRetry besides the url:
\* maxRetries (or nothing), and a base delay and a timeout of its own, for
\* which the function has no parameter   (apiHelpers.ts:50-54)
FRIdle == [pc |-> "idle", url |-> "", maxRetries |-> 0, attempt |-> 0,
           args |-> [maxRetries |-> Undefined, delay |-> Undefined,
                     timeout |-> Undefined],
           lastError |-> NoResult, result |-> NoResult, inner |-> FTIdle,
           wakeAt |-> 0, requests |-> 0, delays |-> << >>,
           lastEvent |-> NoResult, settledAt |-> 0]

LoopHeadPassesTimeout(c, t) ==
    IF c.attempt < c.maxRetries
    THEN [c EXCEPT !.pc = "fetching",
                   !.requests = @ + 1,
                   !.inner = FTStart(c.url,
                                     IF c.args.timeout = Undefined
                                     THEN DEFAULT_TIMEOUT ELSE c.args.timeout.n,
                                     t, c.requests + 1)]
    ELSE [c EXCEPT !.pc = "threw",
                   !.result = IF c.lastError # NoResult
                              THEN c.lastError
                              ELSE ApiError("Unknown error", 0, FALSE, 0,
                                            TRUE, c.url, 0)]
\* The head of the for loop (apiHelpers.ts:57) and, when the loop is over,
\* the final throw (apiHelpers.ts:82).
LoopHead(c, t) ==
    IF c.attempt < c.maxRetries
    THEN [c EXCEPT !.pc = "fetching",
                   !.requests = @ + 1,
                   !.inner = FTStart(c.url, DEFAULT_TIMEOUT, t, c.requests + 1)]
    ELSE [c EXCEPT !.pc = "threw",
                   !.result = IF c.lastError # NoResult
                              THEN c.lastError
                              ELSE ApiError("Unknown error", 0, FALSE, 0,
                                            TRUE, c.url, 0)]

\* After a failed attempt: wait before retrying unless it was the last one,
\* then attempt++   (apiHelpers.ts:75-80, 57)
Backoff(c, t) ==
    IF c.attempt < c.maxRetries - 1
    THEN [c EXCEPT !.pc = "delay",
                   !.wakeAt = t + Delay(c.attempt),
                   !.delays = Append(@, Delay(c.attempt))]
    ELSE LoopHead([c EXCEPT !.attempt = @ + 1], t)

\* The body of the loop once the attempt's fetchWithTimeout has settled
\* (apiHelpers.ts:59-73); c.inner holds the settled call.
AfterAttempt(c, t) ==
    IF c.inner.pc = "resolved"
    THEN IF Accepts(c.inner.result)
         THEN [c EXCEPT !.pc = "returned", !.result = c.inner.result]
         ELSE Backoff(RecordError(c, ApiError("HTTP", c.inner.result.status,
                                              TRUE, c.inner.result.status,
                                              TRUE, c.url, c.inner.result.id)), t)
    ELSE Backoff(RecordError(c, c.inner.result), t)


(***************************************************************************)
(* The UniProt speclist parser   (part_000:19-86)                          *)
(* A line of the text is modelled by what the parser asks of it:           *)
(*   real, virtual   line.includes('(1) Real organism codes') / ('(2) ...')*)
(*   sep             line.startsWith('_____') || line.startsWith('===')    *)
(*   blank           line.trim() is empty                                  *)
(*   header          the record-header regex matches and the line has N=   *)
(*   nMatch, name    whether the N= regex matches, and nMatch[1].trim()    *)
(*   startsC, cname  trimmed line starts with C=, and the trimmed rest     *)
(*   startsS         trimmed line starts with S=                           *)
(***************************************************************************)
OtherLine == [real |-> FALSE, virtual |-> FALSE, sep |-> FALSE, blank |-> FALSE,
              header |-> FALSE, nMatch |-> FALSE, name |-> "",
              startsC |-> FALSE, cname |-> "", startsS |-> FALSE]
RealHeaderLine == [OtherLine EXCEPT !.real = TRUE]
VirtualHeaderLine == [OtherLine EXCEPT !.virtual = TRUE]
SeparatorLine == [OtherLine EXCEPT !.sep = TRUE]
BlankLine == [OtherLine EXCEPT !.blank = TRUE]
\* "CANLU E 9612: N=Canis lupus"
RecordLine(name) == [OtherLine EXCEPT !.header = TRUE, !.nMatch = TRUE, !.name = name]
\* "                 C=Gray wolf"
CLine(c) == [OtherLine EXCEPT !.startsC = TRUE, !.cname = c]
\* "                 S=Grey wolf"
SLine == [OtherLine EXCEPT !.startsS = TRUE]
\* "FELCAT E 9685: N=Felis catus": a record line whose code has six
\* characters (or whose kind letter is none of VEBAO), so the header regex
\* does not match; name is what the line names, which the parser never sees.
BadCodeLine(name) == [OtherLine EXCEPT !.name = name]
\* "FELCA E 9685: N=(Felis) catus": the header regex matches and the line
\* has N=, but the N= regex finds no name.
HeaderNoNameLine == [OtherLine EXCEPT !.header = TRUE]

\* A Map<string, string> by content: name -> common name, "" for no entry
\* (the parser never stores an empty common name).
SciNames == {"Canis lupus", "canis lupus", "Felis catus", "felis catus"}
EmptyMap == [n \in SciNames |-> ""]
MapHas(m, n) == n \in DOMAIN m /\ m[n] # ""
MapGet(m, n) == IF n \in DOMAIN m THEN m[n] ELSE ""
MapSet(m, n, c) == [x \in DOMAIN m \cup {n} |-> IF x = n THEN c ELSE m[x]]
MapSize(m) == Cardinality({n \in DOMAIN m : m[n] # ""})

ParseStart == [map |-> EmptyMap, cur |-> "", inData |-> FALSE, done |-> FALSE]

ParseLineNoStop(st, line) ==
    IF st.done THEN st
    ELSE IF line.real THEN [st EXCEPT !.inData = TRUE]
    ELSE IF line.virtual THEN st
    ELSE IF ~st.inData THEN st
    ELSE IF line.sep THEN st
    ELSE IF line.blank THEN st
    ELSE LET s1 == IF line.header /\ line.nMatch
                   THEN [st EXCEPT !.cur = line.name] ELSE st
             s2 == IF line.startsC /\ s1.cur # "" /\ line.cname # ""
                   THEN [s1 EXCEPT !.map = MapSet(@, s1.cur, line.cname)] ELSE s1
             s3 == IF line.startsS /\ s2.cur # "" /\ ~MapHas(s2.map, s2.cur)
                   THEN [s2 EXCEPT !.cur = ""] ELSE s2
         IN s3

ParseLineClearsOnBadName(st, line) ==
    IF st.done THEN st
    ELSE IF line.real THEN [st EXCEPT !.inData = TRUE]
    ELSE IF line.virtual THEN [st EXCEPT !.done = TRUE]
    ELSE IF ~st.inData THEN st
    ELSE IF line.sep THEN st
    ELSE IF line.blank THEN st
    ELSE LET s1 == IF line.header
                   THEN [st EXCEPT !.cur = IF line.nMatch THEN line.name ELSE ""]
                   ELSE st
             s2 == IF line.startsC /\ s1.cur # "" /\ line.cname # ""
                   THEN [s1 EXCEPT !.map = MapSet(@, s1.cur, line.cname)] ELSE s1
             s3 == IF line.startsS /\ s2.cur # "" /\ ~MapHas(s2.map, s2.cur)
                   THEN [s2 EXCEPT !.cur = ""] ELSE s2
         IN s3

ParseLineSAlwaysClears(st, line) ==
    IF st.done THEN st
    ELSE IF line.real THEN [st EXCEPT !.inData = TRUE]
    ELSE IF line.virtual THEN [st EXCEPT !.done = TRUE]
    ELSE IF ~st.inData THEN st
    ELSE IF line.sep THEN st
    ELSE IF line.blank THEN st
    ELSE LET s1 == IF line.header /\ line.nMatch
                   THEN [st EXCEPT !.cur = line.name] ELSE st
             s2 == IF line.startsC /\ s1.cur # "" /\ line.cname # ""
                   THEN [s1 EXCEPT !.map = MapSet(@, s1.cur, line.cname)] ELSE s1
             s3 == IF line.startsS /\ s2.cur # ""
                   THEN [s2 EXCEPT !.cur = ""] ELSE s2
         IN s3

ParseLineFirstCWins(st, line) ==
    IF st.done THEN st
    ELSE IF line.real THEN [st EXCEPT !.inData = TRUE]
    ELSE IF line.virtual THEN [st EXCEPT !.done = TRUE]
    ELSE IF ~st.inData THEN st
    ELSE IF line.sep THEN st
    ELSE IF line.blank THEN st
    ELSE LET s1 == IF line.header /\ line.nMatch
                   THEN [st EXCEPT !.cur = line.name] ELSE st
             s2 == IF line.startsC /\ s1.cur # "" /\ line.cname # ""
                      /\ ~MapHas(s1.map, s1.cur)
                   THEN [s1 EXCEPT !.map = MapSet(@, s1.cur, line.cname)] ELSE s1
             s3 == IF line.startsS /\ s2.cur # "" /\ ~MapHas(s2.map, s2.cur)
                   THEN [s2 EXCEPT !.cur = ""] ELSE s2
         IN s3

\* The body of the for loop on one line   (part_000:26-82)
ParseLine(st, line) ==
    IF st.done THEN st
    ELSE IF line.real THEN [st EXCEPT !.inData = TRUE]
    ELSE IF line.virtual THEN [st EXCEPT !.done = TRUE]
    ELSE IF ~st.inData THEN st
    ELSE IF line.sep THEN st
    ELSE IF line.blank THEN st
    ELSE LET s1 == IF line.header /\ line.nMatch
                   THEN [st EXCEPT !.cur = line.name] ELSE st
             s2 == IF line.startsC /\ s1.cur # "" /\ line.cname # ""
                   THEN [s1 EXCEPT !.map = MapSet(@, s1.cur, line.cname)] ELSE s1
             s3 == IF line.startsS /\ s2.cur # "" /\ ~MapHas(s2.map, s2.cur)
                   THEN [s2 EXCEPT !.cur = ""] ELSE s2
         IN s3

RECURSIVE ParseFrom(_, _, _)
ParseFrom(st, lines, i) ==
    IF i > Len(lines) THEN st ELSE ParseFrom(ParseLine(st, lines[i]), lines, i + 1)

\* parseUniProtSpecList(text)
ParseUniProtSpecList(lines) == ParseFrom(ParseStart, lines, 1).map

(***************************************************************************)
(* The species-list loader   (part_000:89-202)                             *)
(***************************************************************************)
\* 500 * 60 * 60 * 1000   (part_000:8)
UNIPROT_CACHE_TTL == 500 * 60 * 60 * 1000
\* the timeout passed to fetchWithTimeout   (part_000:107)
LOADER_TIMEOUT == 60000
\* text.length < 1000   (part_000:116)
MIN_TEXT_LENGTH == 1000
UNIPROT_KEY == "uniprot_species_list"
UNIPROT_URL == "VITE_UNIPROT_FTP_URL"

\* new Map<string, string>(cached): only an array of pairs is iterable into
\* a Map; any other truthy value makes the constructor throw a TypeError.
NewMapFrom(cached) ==
    IF cached.k = "entries"
    THEN [ok |-> TRUE,
          map |-> [n \in SciNames \cup {p[1] : p \in cached.pairs} |->
                      IF \E p \in cached.pairs : p[1] = n
                      THEN (CHOOSE p \in cached.pairs : p[1] = n)[2]
                      ELSE ""]]
    ELSE [ok |-> FALSE, map |-> EmptyMap]

\* speciesCache.get(name.toLowerCase()): the lower-cased request
ToLowerCase(n) ==
    CASE n = "Canis lupus" -> "canis lupus"
      [] n = "Felis catus" -> "felis catus"
      [] OTHER -> n

\* speciesCache.get(name) || speciesCache.get(name.toLowerCase()) || ''
\* (part_000:144-146, 152-154, 162-164, 192-194)
Lookup(m, n) ==
    IF MapGet(m, n) # "" THEN MapGet(m, n)
    ELSE IF MapGet(m, ToLowerCase(n)) # "" THEN MapGet(m, ToLowerCase(n))
    ELSE ""

LookupAllKeepsMisses(m, names) == [n \in names |-> Lookup(m, n)]
\* The loop of getCommonNames over the requested names   (part_000:189-198)
LookupAll(m, names) ==
    [n \in {x \in names : Lookup(m, x) # ""} |-> Lookup(m, n)]

\* Which way a call goes on entry, from speciesCache and cachePromise:
\*   "hit"   answer from the map in memory
\*   "join"  await the promise of the load in flight
\*   "load"  start loadUniProtSpeciesList and await it
\*   "skip"  return at once (preloadUniProtData with nothing to do)
GetCommonNameBranch(sc, cp) ==
    IF sc # 0 THEN "hit" ELSE IF cp # 0 THEN "join" ELSE "load"

GetCommonNamesBranchNoJoin(sc, cp) == IF sc # 0 THEN "hit" ELSE "load"
\* part_000:179-186
GetCommonNamesBranch(sc, cp) ==
    IF sc # 0 THEN "hit" ELSE IF cp # 0 THEN "join" ELSE "load"

PreloadBranchNoPromiseCheck(sc, cp) == IF sc = 0 THEN "load" ELSE "skip"
\* if (!speciesCache && !cachePromise)   (part_000:169)
PreloadBranch(sc, cp) == IF sc = 0 /\ cp = 0 THEN "load" ELSE "skip"

Branch(op, sc, cp) ==
    CASE op = "getCommonName" -> GetCommonNameBranch(sc, cp)
      [] op = "getCommonNames" -> GetCommonNamesBranch(sc, cp)
      [] op = "preloadUniProtData" -> PreloadBranch(sc, cp)

\* What a call resolves to once the map m is in speciesCache.
Answer(op, arg, m) ==
    CASE op = "getCommonName" -> [kind |-> "string", s |-> Lookup(m, arg)]
      [] op = "getCommonNames" -> [kind |-> "map", m |-> LookupAll(m, arg)]
      [] op = "preloadUniProtData" -> [kind |-> "void"]

LoadBeginIgnoresCache(st, t) == [store |-> st, outcome |-> "fetching", map |-> EmptyMap]
\* loadUniProtSpeciesList up to its first await   (part_000:89-108):
\* read the TTL cache; a truthy value is turned into a Map (or the
\* constructor throws, outside the try); otherwise the fetch is started.
\*   outcome "cached" / "threw" / "fetching"
LoadBegin(st, t) ==
    LET r == GetCachedData(st, UNIPROT_KEY, t) IN
    IF Truthy(r.result)
    THEN LET made == NewMapFrom(r.result) IN
         IF made.ok THEN [store |-> r.store, outcome |-> "cached", map |-> made.map]
         ELSE [store |-> r.store, outcome |-> "threw", map |-> EmptyMap]
    ELSE [store |-> r.store, outcome |-> "fetching", map |-> EmptyMap]

\* After await fetchWithTimeout(...)   (part_000:104-114, 132-136): a
\* response that is ok goes on to response.text(); anything else is caught
\* and the load resolves to new Map().
LoadAfterFetch(inner) ==
    IF inner.pc = "resolved" /\ Ok(inner.result) THEN "reading" ELSE "empty"

LoadAfterTextPersistsEmpty(body, st, t, quotaOk) ==
    IF body.kind # "text" THEN [store |-> st, map |-> EmptyMap, failed |-> TRUE]
    ELSE IF body.length = 0 \/ body.length < MIN_TEXT_LENGTH
         THEN [store |-> st, map |-> EmptyMap, failed |-> TRUE]
    ELSE LET speciesMap == ParseUniProtSpecList(body.lines)
             w == SetCachedData(st, UNIPROT_KEY, Entries(speciesMap),
                                Ttl(UNIPROT_CACHE_TTL), t, quotaOk)
         IN  IF MapSize(speciesMap) = 0
             THEN [store |-> w.store, map |-> EmptyMap, failed |-> TRUE]
             ELSE [store |-> w.store, map |-> speciesMap, failed |-> FALSE]
\* After await response.text()   (part_000:114-136).  body is the text
\* (length and lines) or a failure to read it; quotaOk says whether
\* sessionStorage.setItem succeeds.
LoadAfterText(body, st, t, quotaOk) ==
    IF body.kind # "text" THEN [store |-> st, map |-> EmptyMap, failed |-> TRUE]
    ELSE IF body.length = 0 \/ body.length < MIN_TEXT_LENGTH
         THEN [store |-> st, map |-> EmptyMap, failed |-> TRUE]
    ELSE LET speciesMap == ParseUniProtSpecList(body.lines) IN
         IF MapSize(speciesMap) = 0
         THEN [store |-> st, map |-> EmptyMap, failed |-> TRUE]
         ELSE LET w == SetCachedData(st, UNIPROT_KEY, Entries(speciesMap),
                                     Ttl(UNIPROT_CACHE_TTL), t, quotaOk)
              IN  \* an exception out of setCachedData would land in the catch
                  IF w.threw
                  THEN [store |-> w.store, map |-> EmptyMap, failed |-> TRUE]
                  ELSE [store |-> w.store, map |-> speciesMap, failed |-> FALSE]

(***************************************************************************)
(* The state after the module is loaded: nothing cached, no call made.      *)
(***************************************************************************)
\* The keys, values and ttl options the cache specifications call with.
CacheKeys == {"uniprot_species_list", "iucn_page_1"}
CacheValues == {Obj("a"), Undefined}
TtlOptions == {NoTtl} \cup {Ttl(n) : n \in 0..MaxTtl}

NoWrite == [valid |-> FALSE, value |-> Undefined, at |-> 0, ttl |-> NoTtl]
NoCacheOp == [op |-> "none", key |-> "", result |-> Null, at |-> 0,
              found |-> Absent, threw |-> FALSE]

\* parseUniProtSpecList has not been called.
NotParsed == [done |-> FALSE, map |-> EmptyMap]

\* Everything but the clock and the store.
InitCalls ==
    /\ cacheOp = NoCacheOp
    /\ written = [k \in Keys |-> NoWrite]
    /\ ft = FTIdle
    /\ fr = FRIdle
    /\ speciesCache = 0
    /\ cachePromise = 0
    /\ loads = << >>
    /\ maps = << >>
    /\ callers = << >>
    /\ fetchCount = 0
    /\ parsed = NotParsed
    /\ svc = << >>
    /\ views = << >>
    /\ app = [pc |-> "unmounted", env |-> {}, envValid |-> TRUE, missingVars |-> {},
              shown |-> TRUE, pending |-> FALSE, validated |-> FALSE]
    /\ hero = [selectedSpecies |-> "", speciesImageUrl |-> "",
               loadingImage |-> FALSE, reqs |-> << >>]

InitCommon ==
    /\ now = Epoch
    /\ text = << >>
    /\ store = [k \in Keys |-> Absent]
    /\ InitCalls

(***************************************************************************)
(* The TTL cache on its own: calls of setCachedData and getCachedData on   *)
(* a store that starts empty, with the clock advancing between them.       *)
(***************************************************************************)
CacheSet(k, v, ttl, ok) ==
    /\ store' = SetCachedData(store, k, v, ttl, now, ok).store
    /\ cacheOp' = [op |-> "set", key |-> k, result |-> Null, at |-> now,
                   found |-> Absent,
                   threw |-> SetCachedData(store, k, v, ttl, now, ok).threw]
    /\ written' = IF ok
                  THEN [written EXCEPT ![k] =
                            [valid |-> TRUE, value |-> v, at |-> now, ttl |-> ttl]]
                  ELSE written
    /\ UNCHANGED <<app, hero, views, text, parsed, svc, now, ft, fr, loaderVars>>

CacheGet(k) ==
    LET r == GetCachedData(store, k, now) IN
    /\ store' = r.store
    /\ cacheOp' = [op |-> "get", key |-> k, result |-> r.result, at |-> now,
                   found |-> store[k], threw |-> r.threw]
    /\ UNCHANGED <<app, hero, views, text, parsed, svc, now, written, ft, fr, loaderVars>>

CacheTick ==
    /\ now < MaxCacheTime
    /\ now' = now + 1
    /\ UNCHANGED <<app, hero, views, text, parsed, svc, cacheVars, ft, fr, loaderVars>>

NextCache ==
    \/ \E k \in CacheKeys, v \in CacheValues, ttl \in TtlOptions, ok \in BOOLEAN :
          CacheSet(k, v, ttl, ok)
    \/ \E k \in CacheKeys : CacheGet(k)
    \/ CacheTick

\* sessionStorage outlives the page and is shared by the scripts of the
\* origin: a key the cache is first called with may hold text that is not
\* JSON (getItem returns whatever was stored, apiHelpers.ts:127).
InitCache ==
    /\ now = Epoch
    /\ text = << >>
    /\ \E g \in CacheKeys \cup {""} :
           store = [k \in Keys |-> IF k = g THEN Garbage ELSE Absent]
    /\ InitCalls

SpecCache == InitCache /\ [][NextCache]_vars

\* The last cache call was getCachedData(k), made after the last successful
\* setCachedData(k, v, {ttl: T}) with T as described by the guard.
GotAfterWrite(k) ==
    /\ cacheOp.op = "get"
    /\ cacheOp.key = k
    /\ written[k].valid

\* C9: after setCachedData(k, v, {ttl: T}) with T > 0, getCachedData(k)
\* returns v while now - (time of the write) <= T; a getCachedData(k) made
\* more than T after the write returns no value and leaves k absent from the
\* store.
C9_TtlExpiry ==
    \A k \in Keys :
        (GotAfterWrite(k) /\ written[k].ttl.has /\ written[k].ttl.n > 0) =>
            IF cacheOp.at - written[k].at <= written[k].ttl.n
            THEN cacheOp.result = written[k].value
            ELSE cacheOp.result = Null /\ store[k] = Absent

\* A value written with a positive ttl T was read more than T later: the
\* read found nothing and the key is gone from the store.
C9_Witness ==
    \E k \in Keys :
        /\ GotAfterWrite(k) /\ written[k].ttl.has /\ written[k].ttl.n > 0
        /\ cacheOp.at - written[k].at > written[k].ttl.n
        /\ cacheOp.result = Null /\ store[k] = Absent
        /\ written[k].value # Undefined

\* C10: for every ttl given to setCachedData, ttl = 0 included, a later
\* getCachedData treats the entry as expired exactly when
\* now - timestamp > ttl (a miss, with the key removed).
C10_ExpiredIffAgeOverTtl ==
    \A k \in Keys :
        (GotAfterWrite(k) /\ written[k].ttl.has) =>
            IF cacheOp.at - written[k].at > written[k].ttl.n
            THEN cacheOp.result = Null /\ store[k] = Absent
            ELSE cacheOp.result = written[k].value

\* C11: an entry written by setCachedData without a ttl is never treated as
\* expired: however long after the write getCachedData is called, it returns
\* the written value and leaves the entry in the store as it was written.
C11_NoTtlNeverExpires ==
    \A k \in Keys :
        (GotAfterWrite(k) /\ ~written[k].ttl.has) =>
            /\ cacheOp.result = written[k].value
            /\ store[k] = StringifyEnvelope(written[k].value, written[k].at, NoTtl)

\* A value written without a ttl was read back MaxCacheTime - Epoch ms later.
C11_Witness ==
    \E k \in Keys :
        /\ GotAfterWrite(k) /\ ~written[k].ttl.has
        /\ written[k].at = Epoch /\ cacheOp.at = MaxCacheTime
        /\ cacheOp.result = Obj("a")

(***************************************************************************)
(* getCachedData on whatever the store may hold: sessionStorage is shared  *)
(* by every script of the origin and outlives a page load, so a read may   *)
(* find any text under a key, or find the storage inaccessible.            *)
(***************************************************************************)
\* The fifth text is JSON that parses to something without the envelope's
\* properties, such as the raw JSON.stringify(data) the views store
\* (part_001:69, 549).
StoredTexts ==
    { Absent, Garbage, JsonNull, Denied,
      JsonObj(FALSE, Undefined, FALSE, 0, FALSE, 0),
      StringifyEnvelope(Obj("a"), Epoch, NoTtl),
      StringifyEnvelope(Obj("a"), Epoch, Ttl(1)) }

InitCacheRead ==
    /\ now = Epoch
    /\ text = << >>
    /\ store \in [Keys -> StoredTexts]
    /\ InitCalls

SpecCacheRead == InitCacheRead /\ [][(\E k \in Keys : CacheGet(k)) \/ CacheTick]_vars

\* The text found holds no usable entry: nothing there, text that does not
\* deserialize, a parsed value without a value property, an entry past its
\* ttl, or storage that cannot be read.
NoUsableEntry(item, t) ==
    \/ item.t \in {"absent", "garbage", "null", "denied"}
    \/ item.t = "obj" /\ ~item.hasValue
    \/ item.t = "obj" /\ IsExpired(item, t)

\* C12: getCachedData never throws; for a key that is missing, holds text
\* that does not deserialize or is no envelope, or holds an expired entry,
\* it returns no value (null or undefined, both falsy to the callers), and
\* a storage or deserialization failure returns the same null as a missing
\* key.
C12_ReadNeverThrows ==
    cacheOp.op = "get" =>
        /\ ~cacheOp.threw
        /\ NoUsableEntry(cacheOp.found, cacheOp.at) =>
              cacheOp.result \in {Null, Undefined}
        /\ cacheOp.found.t \in {"absent", "garbage", "null", "denied"} =>
              cacheOp.result = Null

\* A key holding text that JSON.parse rejects was read: the call returned
\* null and did not throw.
C12_Witness ==
    /\ cacheOp.op = "get" /\ cacheOp.found = Garbage
    /\ cacheOp.result = Null /\ ~cacheOp.threw

(***************************************************************************)
(* fetchWithTimeout on its own: one call, the network answering, failing   *)
(* or staying silent until the timer is due.  ft.event and ft.delivered    *)
(* record what the environment delivered (history).                        *)
(***************************************************************************)
FTTimeouts == {2 * Quantum, DEFAULT_TIMEOUT}

FTCall(url, timeout) ==
    /\ ft.pc = "idle"
    /\ ft' = FTStart(url, timeout, now, 1)
    /\ UNCHANGED <<app, hero, views, text, parsed, svc, now, cacheVars, fr, loaderVars>>

FTResponseArrives(status) ==
    /\ ft.pc = "pending"
    /\ LET resp == Response(status, ft.serial) IN
       ft' = [FTOnResponse(ft, resp) EXCEPT !.event = "response", !.delivered = resp]
    /\ UNCHANGED <<app, hero, views, text, parsed, svc, now, cacheVars, fr, loaderVars>>

FTFetchFails ==
    /\ ft.pc = "pending"
    /\ LET e == NetworkError(ft.serial) IN
       ft' = [FTOnError(ft, e) EXCEPT !.event = "network", !.delivered = e]
    /\ UNCHANGED <<app, hero, views, text, parsed, svc, now, cacheVars, fr, loaderVars>>

FTTimerFires ==
    /\ TimerDue(ft, now)
    /\ ft' = [FTOnTimer(ft) EXCEPT !.event = IF ft.pc = "pending" THEN "timer" ELSE @]
    /\ UNCHANGED <<app, hero, views, text, parsed, svc, now, cacheVars, fr, loaderVars>>

\* The instants the clock may move to next, given the armed deadlines.
NextInstants(deadlines) ==
    {t \in ({now + Quantum} \cup deadlines) :
        /\ t > now
        /\ (t \in deadlines \/ t <= MaxFetchTime)
        /\ \A d \in deadlines : t <= d}

FTAdvance ==
    /\ \E t \in NextInstants(IF ft.timerActive THEN {ft.deadline} ELSE {}) :
          now' = t
    /\ UNCHANGED <<app, hero, views, text, parsed, svc, cacheVars, ft, fr, loaderVars>>

NextTimeout ==
    \/ \E url \in Urls, t \in FTTimeouts : FTCall(url, t)
    \/ \E st \in Statuses : FTResponseArrives(st)
    \/ FTFetchFails
    \/ FTTimerFires
    \/ FTAdvance

SpecTimeout == InitCommon /\ [][NextTimeout]_vars

\* C8: fetchWithTimeout(url, options, t).  The call is not left pending
\* once t ms have passed without a response: the timer aborts it and it
\* rejects with the timeout ApiError that names t and url.  A transport
\* failure rejects with the original error.  A response that arrives first
\* is returned as it came.  Once the call has settled the timer is cancelled
\* and never fires.
C8_TimeoutContract ==
    /\ ft.pc = "pending" => now <= ft.startedAt + ft.timeout
    /\ ft.event = "timer" =>
          /\ ft.pc = "rejected"
          /\ now >= ft.startedAt + ft.timeout
          /\ ft.result = ApiError("Request timeout after ms", ft.timeout,
                                  FALSE, 0, TRUE, ft.url, ft.serial)
    /\ ft.event = "network" =>
          ft.pc = "rejected" /\ ft.result = ft.delivered
    /\ ft.event = "response" =>
          ft.pc = "resolved" /\ ft.result = ft.delivered
    /\ ft.pc \in {"resolved", "rejected"} =>
          ~ft.timerActive /\ ~ft.lateAbort

\* A call with the default timeout got no response and was rejected with
\* the timeout error naming 30000 ms.
C8_Witness ==
    /\ ft.event = "timer"
    /\ ft.timeout = DEFAULT_TIMEOUT
    /\ ft.result.msg = "Request timeout after ms" /\ ft.result.n = DEFAULT_TIMEOUT

(***************************************************************************)
(* fetchWithRetry on its own: one call against a network that answers,     *)
(* fails or stays silent.                                                  *)
(***************************************************************************)
RetryCounts == (0 - 1)..MaxAttempts
\* A caller gives maxRetries or leaves it out, and may ask for a base delay
\* of Quantum ms and a timeout of Quantum ms.
RetryArgs ==
    [maxRetries : {Undefined} \cup {Num(n) : n \in RetryCounts},
     delay : {Undefined, Num(Quantum)},
     timeout : {Undefined, Num(Quantum)}]

\* maxRetries: number = DEFAULT_RETRY_ATTEMPTS   (apiHelpers.ts:53)
FRCall(url, args) ==
    /\ fr.pc = "idle"
    /\ fr' = LoopHead([FRIdle EXCEPT
                          !.url = url, !.args = args,
                          !.maxRetries = IF args.maxRetries = Undefined
                                         THEN DEFAULT_RETRY_ATTEMPTS
                                         ELSE args.maxRetries.n], now)
    /\ UNCHANGED <<app, hero, views, text, parsed, svc, now, cacheVars, ft, loaderVars>>

\* An attempt settled: the loop body runs on, with the history updated.
AttemptSettled(inner, ev) ==
    [AfterAttempt([fr EXCEPT !.inner = inner], now)
        EXCEPT !.lastEvent = ev, !.settledAt = now]

FRResponseArrives(status) ==
    /\ fr.pc = "fetching"
    /\ LET resp == Response(status, fr.inner.serial) IN
       fr' = AttemptSettled(FTOnResponse(fr.inner, resp), resp)
    /\ UNCHANGED <<app, hero, views, text, parsed, svc, now, cacheVars, ft, loaderVars>>

FRFetchFails ==
    /\ fr.pc = "fetching"
    /\ LET e == NetworkError(fr.inner.serial) IN
       fr' = AttemptSettled(FTOnError(fr.inner, e), e)
    /\ UNCHANGED <<app, hero, views, text, parsed, svc, now, cacheVars, ft, loaderVars>>

FRTimerFires ==
    /\ fr.pc = "fetching"
    /\ TimerDue(fr.inner, now)
    /\ LET inner == FTOnTimer(fr.inner) IN
       fr' = AttemptSettled(inner, inner.result)
    /\ UNCHANGED <<app, hero, views, text, parsed, svc, now, cacheVars, ft, loaderVars>>

\* The backoff timer is due: the await ends and the loop goes round.
FRWake ==
    /\ fr.pc = "delay"
    /\ now >= fr.wakeAt
    /\ fr' = LoopHead([fr EXCEPT !.attempt = @ + 1], now)
    /\ UNCHANGED <<app, hero, views, text, parsed, svc, now, cacheVars, ft, loaderVars>>

FRAdvance ==
    /\ \E t \in NextInstants((IF fr.pc = "fetching" /\ fr.inner.timerActive
                              THEN {fr.inner.deadline} ELSE {})
                             \cup (IF fr.pc = "delay" THEN {fr.wakeAt} ELSE {})) :
          now' = t
    /\ UNCHANGED <<app, hero, views, text, parsed, svc, cacheVars, ft, fr, loaderVars>>

NextRetry ==
    \/ \E url \in Urls, args \in RetryArgs : FRCall(url, args)
    \/ \E st \in Statuses : FRResponseArrives(st)
    \/ FRFetchFails
    \/ FRTimerFires
    \/ FRWake
    \/ FRAdvance

SpecRetry == InitCommon /\ [][NextRetry]_vars

AttemptFailed(ev) == ev.kind = "error" \/ (ev.kind = "response" /\ ~Accepts(ev))

\* C4: a fetchWithRetry call with maxRetries = n >= 1 whose attempts all
\* fail retryably makes exactly n requests one after another; the wait
\* started after failed attempt k (k < n-1) is 1000 * 2^k ms; no wait
\* follows the n-th attempt, after which the call throws; attempt k+1
\* starts no earlier than the settling of attempt k plus that wait.
C4_RetryCeiling ==
    (fr.pc # "idle" /\ fr.maxRetries >= 1 /\ fr.pc # "returned") =>
        /\ fr.requests <= fr.maxRetries
        /\ fr.requests = IF fr.pc = "threw" THEN fr.attempt ELSE fr.attempt + 1
        /\ fr.delays = [k \in 1..Len(fr.delays) |-> 1000 * Pow2(k - 1)]
        /\ fr.pc = "fetching" =>
              /\ Len(fr.delays) = fr.attempt
              /\ fr.attempt >= 1 =>
                    fr.inner.startedAt >= fr.settledAt + 1000 * Pow2(fr.attempt - 1)
        /\ fr.pc = "delay" =>
              /\ fr.attempt < fr.maxRetries - 1
              /\ Len(fr.delays) = fr.attempt + 1
              /\ AttemptFailed(fr.lastEvent)
        /\ fr.pc = "threw" =>
              /\ fr.requests = fr.maxRetries
              /\ Len(fr.delays) = fr.maxRetries - 1
              /\ AttemptFailed(fr.lastEvent)

\* Three attempts that each got HTTP 503: waits of 1000 and 2000 ms, then
\* the throw.
C4_Witness ==
    /\ fr.pc = "threw" /\ fr.maxRetries = 3 /\ fr.requests = 3
    /\ fr.delays = <<1000, 2000>>
    /\ fr.lastEvent = Response(503, 3)

\* C5: the first response whose status is 2xx or 4xx is returned to the
\* caller as it came, without a throw; no attempt and no backoff wait
\* follows it (so the requests made number one more than the waits, and a
\* 404 on the first attempt means one request and no wait).
C5_AcceptedResponseReturned ==
    (fr.lastEvent.kind = "response"
       /\ (Ok(fr.lastEvent) \/ (fr.lastEvent.status >= 400 /\ fr.lastEvent.status <= 499))) =>
        /\ fr.pc = "returned"
        /\ fr.result = fr.lastEvent
        /\ fr.requests = fr.lastEvent.id
        /\ Len(fr.delays) = fr.requests - 1
        /\ ~fr.inner.timerActive

\* A 404 on the very first attempt was handed back: one request, no wait.
C5_Witness ==
    /\ fr.pc = "returned" /\ fr.result = Response(404, 1)
    /\ fr.requests = 1 /\ fr.delays = << >>
    /\ now > fr.settledAt

\* C6: another attempt is started only after an attempt that threw or got
\* a status >= 500; a response with a status below 500 is never followed
\* by a retry and never turned into a thrown HTTP error.
C6_RetryOnlyOnServerError ==
    (fr.lastEvent.kind = "response" /\ fr.lastEvent.status < 500) =>
        fr.pc = "returned"

\* The error an exhausted call must throw, given what its last attempt
\* produced.
FailureOf(ev, url) ==
    IF ev.kind = "response"
    THEN ApiError("HTTP", ev.status, TRUE, ev.status, TRUE, url, ev.id)
    ELSE ev

\* C7: when fetchWithRetry has used up its attempts, what it throws is the
\* failure of the last attempt (the HTTP error with that response's status
\* and the url, or the error the attempt threw), never an earlier one; with
\* maxRetries <= 0 it makes no request and throws the generic error.
C7_ThrowsLastFailure ==
    fr.pc = "threw" =>
        IF fr.maxRetries <= 0
        THEN /\ fr.requests = 0
             /\ fr.result = ApiError("Unknown error", 0, FALSE, 0, TRUE, fr.url, 0)
        ELSE /\ fr.result = FailureOf(fr.lastEvent, fr.url)
             /\ fr.result.from = fr.requests

\* A call whose first attempt threw and whose last got a server error threw
\* the HTTP error of the last one.
C7_Witness ==
    /\ fr.pc = "threw" /\ fr.maxRetries = 2 /\ fr.requests = 2
    /\ fr.lastEvent = Response(500, 2)
    /\ fr.result.cls = "ApiError" /\ fr.result.status = 500 /\ fr.result.from = 2

(***************************************************************************)
(* The loader: calls of getCommonName, getCommonNames and                  *)
(* preloadUniProtData, interleaved with the one network request and the    *)
(* promise reactions.  sessionStorage outlives the page, so a run starts   *)
(* with whatever an earlier page load (or another script of the origin)    *)
(* left under the loader's key.                                            *)
(*   loads[id]     the promise returned by loadUniProtSpeciesList: state,  *)
(*                 the Map it resolved to (value, an index of maps), the   *)
(*                 calls awaiting it in the order they began to (reactions)*)
(*                 history: fetched (it issued the request), failed        *)
(*   callers[c]    op, arg, where the call stands (pc), what it resolved   *)
(*                 to; history: early (speciesCache was null when it       *)
(*                 began), usedMap (the Map object it looked names up in)  *)
(***************************************************************************)
PersistedMap == MapSet(EmptyMap, "Felis catus", "Cat")
PersistedList ==
    SetCachedData([k \in Keys |-> Absent], UNIPROT_KEY, Entries(PersistedMap),
                  Ttl(UNIPROT_CACHE_TTL), Epoch, TRUE).store[UNIPROT_KEY]
\* A truthy value under the key that is no array of pairs.
PersistedNotAList ==
    StringifyEnvelope(Obj("not a list"), Epoch, Ttl(UNIPROT_CACHE_TTL))

PersistedStates ==
    { [now |-> Epoch, item |-> Absent],
      [now |-> Epoch, item |-> Garbage],
      [now |-> Epoch + 24 * 60 * 60 * 1000 + 1, item |-> PersistedList],
      [now |-> Epoch + UNIPROT_CACHE_TTL, item |-> PersistedList],
      [now |-> Epoch + UNIPROT_CACHE_TTL + 1, item |-> PersistedList],
      [now |-> Epoch, item |-> PersistedNotAList] }

InitLoader ==
    /\ \E p \in PersistedStates :
          /\ now = p.now
          /\ store = [k \in Keys |-> IF k = UNIPROT_KEY THEN p.item ELSE Absent]
    /\ text = << >>
    /\ InitCalls

\* The response bodies the species-list URL may deliver.
GoodLines == << OtherLine, RealHeaderLine, SeparatorLine,
                RecordLine("Canis lupus"), CLine("Gray wolf"), SLine,
                RecordLine("Felis catus"), SLine, BlankLine,
                VirtualHeaderLine, RecordLine("Felis catus"), CLine("Cat") >>
NoNameLines == << RealHeaderLine, RecordLine("Felis catus"), SLine >>
LoaderBodies ==
    { [kind |-> "text", length |-> 2000, lines |-> GoodLines],
      [kind |-> "text", length |-> 2000, lines |-> NoNameLines],
      [kind |-> "text", length |-> 999, lines |-> GoodLines],
      [kind |-> "text", length |-> 0, lines |-> << >>],
      [kind |-> "error", length |-> 0, lines |-> << >>] }
LoaderStatuses == {200, 404, 503}

CallArgs(op) ==
    CASE op = "getCommonName" -> {"Canis lupus", "canis lupus"}
      [] op = "getCommonNames" -> {{"Canis lupus", "Felis catus"}}
      [] op = "preloadUniProtData" -> {{}}
Ops == {"getCommonName", "getCommonNames", "preloadUniProtData"}

NewCaller(op, arg, pc, promise, result, usedMap) ==
    [op |-> op, arg |-> arg, pc |-> pc, promise |-> promise,
     result |-> result, usedMap |-> usedMap, early |-> speciesCache = 0]
NoAnswer == [kind |-> "none"]

NewLoad(state, value, net, fetched, failed, me) ==
    [state |-> state, value |-> value, net |-> net, reactions |-> <<me>>,
     fetched |-> fetched, failed |-> failed]

LoadSettled(id) == loads[id].state \in {"fulfilled", "rejected"}
\* Promise reactions (microtasks) waiting to run.
MicrotasksPending ==
    \E id \in 1..Len(loads) : LoadSettled(id) /\ loads[id].reactions # << >>

\* A call that finds the map in memory answers from it.
CallHit(op, arg) ==
    /\ Branch(op, speciesCache, cachePromise) = "hit"
    /\ callers' = Append(callers,
          NewCaller(op, arg, "done", 0, Answer(op, arg, maps[speciesCache]),
                    speciesCache))
    /\ UNCHANGED <<hero, views, text, parsed, svc, now, cacheVars, ft, fr, speciesCache, cachePromise, loads,
                   maps, fetchCount>>

\* preloadUniProtData with a map or a load already there returns at once.
CallSkip(op, arg) ==
    /\ Branch(op, speciesCache, cachePromise) = "skip"
    /\ callers' = Append(callers,
          NewCaller(op, arg, "done", 0, Answer(op, arg, EmptyMap), 0))
    /\ UNCHANGED <<hero, views, text, parsed, svc, now, cacheVars, ft, fr, speciesCache, cachePromise, loads,
                   maps, fetchCount>>

\* speciesCache = await cachePromise   (part_000:151, 181)
CallJoin(op, arg) ==
    /\ Branch(op, speciesCache, cachePromise) = "join"
    /\ callers' = Append(callers,
          NewCaller(op, arg, "awaitShared", cachePromise, NoAnswer, 0))
    /\ loads' = [loads EXCEPT ![cachePromise].reactions =
                                  Append(@, Len(callers) + 1)]
    /\ UNCHANGED <<hero, views, text, parsed, svc, now, cacheVars, ft, fr, speciesCache, cachePromise, maps,
                   fetchCount>>

\* cachePromise = loadUniProtSpeciesList(); ... await cachePromise
\* (part_000:158-159, 170-171, 183-184).  The load runs to its first await
\* within the same step.
CallLoad(op, arg) ==
    /\ Branch(op, speciesCache, cachePromise) = "load"
    /\ Len(loads) < MaxLoads
    /\ LET me == Len(callers) + 1
           lb == LoadBegin(store, now)
       IN  /\ store' = lb.store
           /\ cachePromise' = Len(loads) + 1
           /\ callers' = Append(callers,
                 NewCaller(op, arg, "awaitOwn", Len(loads) + 1, NoAnswer, 0))
           /\ CASE lb.outcome = "cached" ->
                     /\ maps' = Append(maps, lb.map)
                     /\ loads' = Append(loads,
                           NewLoad("fulfilled", Len(maps) + 1, FTIdle, FALSE, FALSE, me))
                     /\ fetchCount' = fetchCount
                [] lb.outcome = "threw" ->
                     /\ maps' = maps
                     /\ loads' = Append(loads,
                           NewLoad("rejected", 0, FTIdle, FALSE, TRUE, me))
                     /\ fetchCount' = fetchCount
                [] lb.outcome = "fetching" ->
                     /\ maps' = maps
                     /\ loads' = Append(loads,
                           NewLoad("fetching", 0,
                                   FTStart(UNIPROT_URL, LOADER_TIMEOUT, now,
                                           fetchCount + 1),
                                   TRUE, FALSE, me))
                     /\ fetchCount' = fetchCount + 1
    /\ UNCHANGED <<hero, views, text, parsed, svc, now, cacheOp, written, ft, fr, speciesCache>>

Call(op, arg) ==
    /\ Len(callers) < MaxCallers
    /\ \/ CallHit(op, arg)
       \/ CallSkip(op, arg)
       \/ CallJoin(op, arg)
       \/ CallLoad(op, arg)
    /\ UNCHANGED app

\* The load's fetchWithTimeout settled as inner: go on to read the body, or
\* resolve to a new empty Map.
LoadFetchSettles(id, inner) ==
    /\ ~MicrotasksPending
    /\ IF LoadAfterFetch(inner) = "reading"
       THEN /\ loads' = [loads EXCEPT ![id].state = "reading", ![id].net = inner]
            /\ maps' = maps
       ELSE /\ loads' = [loads EXCEPT ![id].state = "fulfilled",
                                      ![id].net = inner,
                                      ![id].value = Len(maps) + 1,
                                      ![id].failed = TRUE]
            /\ maps' = Append(maps, EmptyMap)
    /\ UNCHANGED <<app, hero, views, text, parsed, svc, now, cacheVars, ft, fr, speciesCache, cachePromise, callers,
                   fetchCount>>

LoadResponseArrives(id, status) ==
    /\ loads[id].state = "fetching"
    /\ LoadFetchSettles(id, FTOnResponse(loads[id].net,
                                         Response(status, loads[id].net.serial)))

LoadFetchFails(id) ==
    /\ loads[id].state = "fetching"
    /\ LoadFetchSettles(id, FTOnError(loads[id].net,
                                      NetworkError(loads[id].net.serial)))

LoadTimerFires(id) ==
    /\ loads[id].state = "fetching"
    /\ TimerDue(loads[id].net, now)
    /\ LoadFetchSettles(id, FTOnTimer(loads[id].net))

\* response.text() settled: the rest of loadUniProtSpeciesList runs.
LoadBodyArrives(id, body, quotaOk) ==
    /\ loads[id].state = "reading"
    /\ ~MicrotasksPending
    /\ LET r == LoadAfterText(body, store, now, quotaOk) IN
          /\ store' = r.store
          /\ maps' = Append(maps, r.map)
          /\ loads' = [loads EXCEPT ![id].state = "fulfilled",
                                    ![id].value = Len(maps) + 1,
                                    ![id].failed = r.failed]
    /\ UNCHANGED <<app, hero, views, text, parsed, svc, now, cacheOp, written, ft, fr, speciesCache, cachePromise,
                   callers, fetchCount>>

ResumeSharedClearsPromise(pc, value, sc, cp) == [sc |-> value, cp |-> 0]
ResumeKeepsPromise(pc, value, sc, cp) == [sc |-> value, cp |-> cp]
\* The statements after await cachePromise: a call that started the load
\* stores the map and clears cachePromise (part_000:159-160, 171-172,
\* 184-185); one that joined stores the map only (part_000:151, 181).
Resume(pc, value, sc, cp) ==
    IF pc = "awaitOwn" THEN [sc |-> value, cp |-> 0]
    ELSE [sc |-> value, cp |-> cp]

\* The next reaction of a settled promise runs: the awaiting call goes on,
\* or, the promise being rejected, throws out of its await.
RunReaction(id) ==
    /\ LoadSettled(id)
    /\ loads[id].reactions # << >>
    /\ LET c == Head(loads[id].reactions)
           me == callers[c]
       IN  /\ loads' = [loads EXCEPT ![id].reactions = Tail(@)]
           /\ IF loads[id].state = "fulfilled"
              THEN LET r == Resume(me.pc, loads[id].value, speciesCache, cachePromise)
                   IN  /\ speciesCache' = r.sc
                       /\ cachePromise' = r.cp
                       /\ callers' = [callers EXCEPT
                             ![c].pc = "done",
                             ![c].usedMap = r.sc,
                             ![c].result = Answer(me.op, me.arg, maps[r.sc])]
              ELSE /\ callers' = [callers EXCEPT ![c].pc = "rejected"]
                   /\ UNCHANGED <<speciesCache, cachePromise>>
    /\ UNCHANGED <<app, hero, views, text, parsed, svc, now, cacheVars, ft, fr, maps, fetchCount>>

LoaderAdvance ==
    /\ ~MicrotasksPending
    /\ \E t \in NextInstants({loads[id].net.deadline :
                                id \in {i \in 1..Len(loads) :
                                          loads[i].state = "fetching"}}) :
          now' = t
    /\ UNCHANGED <<app, hero, views, text, parsed, svc, cacheVars, ft, fr, loaderVars>>

NextLoader ==
    \/ \E op \in Ops : \E arg \in CallArgs(op) : Call(op, arg)
    \/ \E id \in 1..Len(loads), st \in LoaderStatuses : LoadResponseArrives(id, st)
    \/ \E id \in 1..Len(loads) : LoadFetchFails(id)
    \/ \E id \in 1..Len(loads) : LoadTimerFires(id)
    \/ \E id \in 1..Len(loads), body \in LoaderBodies, quotaOk \in BOOLEAN :
          LoadBodyArrives(id, body, quotaOk)
    \/ \E id \in 1..Len(loads) : RunReaction(id)
    \/ LoaderAdvance

SpecLoader == InitLoader /\ [][NextLoader]_vars

CallerIds == 1..Len(callers)
IsLookup(c) == callers[c].op \in {"getCommonName", "getCommonNames"}

\* C1: starting with no map, no pending promise and nothing fresh persisted
\* (so that the first load goes to the network), however many calls are
\* started before that load completes, exactly one request for the species
\* list is issued, and every lookup among them is answered from the one Map
\* object that load produced.
C1_SingleFlight ==
    (Len(loads) >= 1 /\ loads[1].fetched) =>
        /\ fetchCount = 1
        /\ Len(loads) = 1
        /\ \A c \in CallerIds :
              (callers[c].early /\ callers[c].pc = "done" /\ IsLookup(c)) =>
                  /\ loads[1].state = "fulfilled"
                  /\ callers[c].usedMap = loads[1].value
                  /\ callers[c].result =
                        Answer(callers[c].op, callers[c].arg, maps[loads[1].value])

\* Three calls began before the load completed, two of them awaiting the
\* promise the first had made; all were answered from the parsed map.
C1_Witness ==
    /\ Len(callers) = 3 /\ fetchCount = 1
    /\ \A c \in CallerIds : callers[c].early /\ callers[c].pc = "done"
    /\ callers[1].pc = "done" /\ callers[2].op = "getCommonNames"
    /\ callers[3].op = "getCommonName" /\ callers[3].result.s = "Gray wolf"
    /\ callers[2].usedMap = callers[3].usedMap

\* C2: over any interleaving of getCommonName, getCommonNames and
\* preloadUniProtData the species list is requested at most once, whatever
\* becomes of that request; and from the moment a map (empty or not) is in
\* speciesCache no step fetches, touches the store or replaces the map, and
\* every call begun from then on is answered at once from it.
C2_AtMostOneFetch ==
    /\ [](fetchCount <= 1)
    /\ [](\A c \in CallerIds :
             ~callers[c].early =>
                 callers[c].pc = "done" /\ (IsLookup(c) => callers[c].usedMap = speciesCache))
    /\ [][speciesCache # 0 =>
             /\ fetchCount' = fetchCount
             /\ store' = store
             /\ speciesCache' = speciesCache]_vars

\* The one request failed, an empty map was adopted, and a later call was
\* answered from it without another request.
C2_Witness ==
    /\ fetchCount = 1 /\ speciesCache # 0
    /\ maps[speciesCache] = EmptyMap
    /\ loads[1].failed
    /\ \E c \in CallerIds : ~callers[c].early /\ callers[c].op = "getCommonName"

\* What a lookup resolves to when there are no common names.
EmptyAnswer(op) ==
    IF op = "getCommonName" THEN [kind |-> "string", s |-> ""]
    ELSE [kind |-> "map", m |-> LookupAll(EmptyMap, {})]

\* C3: any failure while loading (the fetch rejecting or timing out, a
\* non-2xx response, a text under 1000 characters, no parsed entry, or a
\* persisted value that cannot be turned into a map) ends with the empty
\* map adopted: no call rejects, getCommonName resolves to '' and
\* getCommonNames to an empty map.
C3_FailureMeansEmptyMap ==
    /\ \A c \in CallerIds : callers[c].pc # "rejected"
    /\ \A id \in 1..Len(loads) :
          loads[id].failed =>
              /\ loads[id].state = "fulfilled"
              /\ maps[loads[id].value] = EmptyMap
              /\ \A c \in CallerIds :
                    (callers[c].pc = "done" /\ IsLookup(c)
                       /\ callers[c].usedMap = loads[id].value) =>
                        callers[c].result = EmptyAnswer(callers[c].op)

\* Two names that differ at most in letter case.
SameIgnoringCase(a, b) == ToLowerCase(a) = ToLowerCase(b)

\* The common name a request n ought to resolve to in map m under a
\* case-insensitive fallback: the exact key's, else that of a key differing
\* from n only in letter case; "" when there is neither.
CaseInsensitiveNames(m, n) ==
    IF MapHas(m, n) THEN {m[n]}
    ELSE IF \E key \in DOMAIN m : MapHas(m, key) /\ SameIgnoringCase(key, n)
         THEN {m[key] : key \in {x \in DOMAIN m : MapHas(m, x) /\ SameIgnoringCase(x, n)}}
         ELSE {""}

\* C14: when the loaded map has a key differing from the requested name
\* only in letter case and no exactly matching key, getCommonName resolves
\* to that key's common name and getCommonNames includes the requested name
\* with it.
C14_CaseInsensitiveFallback ==
    \A c \in CallerIds :
        (callers[c].pc = "done" /\ IsLookup(c) /\ callers[c].usedMap # 0) =>
            LET m == maps[callers[c].usedMap] IN
            IF callers[c].op = "getCommonName"
            THEN callers[c].result.s \in CaseInsensitiveNames(m, callers[c].arg)
            ELSE \A n \in callers[c].arg :
                    MapGet(callers[c].result.m, n) \in CaseInsensitiveNames(m, n)

\* The names of a batch that have a common name in the map, by the lookup
\* the code documents: the exact key, else the lower-cased request.
Matched(m, names) == {n \in names : MapHas(m, n) \/ MapHas(m, ToLowerCase(n))}

\* C15: getCommonNames(names) resolves to a map whose keys are exactly the
\* requested names with a common name in the loaded map, each mapped to
\* that common name; a name without a match is left out, and a call whose
\* load resolved never rejects, matched or not.
C15_BatchHasExactlyMatches ==
    \A c \in CallerIds :
        callers[c].op = "getCommonNames" =>
            /\ (callers[c].promise # 0 /\ loads[callers[c].promise].state = "fulfilled")
                  => callers[c].pc # "rejected"
            /\ callers[c].pc = "done" =>
                  LET m == maps[callers[c].usedMap]
                      r == callers[c].result.m
                  IN  /\ DOMAIN r = Matched(m, callers[c].arg)
                      /\ \A n \in DOMAIN r :
                            r[n] = IF MapHas(m, n) THEN m[n] ELSE m[ToLowerCase(n)]

\* A batch of two names, one with a common name in the parsed list and one
\* without, resolved to a map holding the first name only.
C15_Witness ==
    \E c \in CallerIds :
        /\ callers[c].op = "getCommonNames" /\ callers[c].pc = "done"
        /\ callers[c].arg = {"Canis lupus", "Felis catus"}
        /\ DOMAIN callers[c].result.m = {"Canis lupus"}
        /\ callers[c].result.m["Canis lupus"] = "Gray wolf"

(***************************************************************************)
(* parseUniProtSpecList on its own: any text of up to MaxLines lines, taken *)
(* from the kinds of line the parser tells apart, is parsed in one call.    *)
(***************************************************************************)
ParserLines ==
    { OtherLine, RealHeaderLine, VirtualHeaderLine, SeparatorLine, BlankLine,
      RecordLine("Canis lupus"), RecordLine("Felis catus"),
      BadCodeLine("Felis catus"), HeaderNoNameLine,
      CLine("Gray wolf"), CLine("Cat"), CLine(""), SLine }
Texts == UNION { [1..n -> ParserLines] : n \in 0..MaxLines }

InitParser ==
    /\ now = Epoch
    /\ store = [k \in Keys |-> Absent]
    /\ text \in Texts
    /\ InitCalls

ParseText ==
    /\ ~parsed.done
    /\ parsed' = [done |-> TRUE, map |-> ParseUniProtSpecList(text)]
    /\ UNCHANGED <<app, hero, views, text, svc, now, cacheVars, ft, fr, loaderVars>>

SpecParser == InitParser /\ [][ParseText]_vars

\* The parser's locals after the first i lines of the text.
StateAfter(i) == ParseFrom(ParseStart, SubSeq(text, 1, i), 1)
\* The text without its line i.
WithoutLine(i) == SubSeq(text, 1, i - 1) \o SubSeq(text, i + 1, Len(text))

\* The line starts a record of the file: a header the parser reads, or a
\* record line it cannot read (bad code or kind, or no extractable name).
BeginsRecord(line) == line.header \/ line.name # ""
\* ... and the parser cannot read it.
Malformed(line) == BeginsRecord(line) /\ ~(line.header /\ line.nMatch)
\* The lines that name X in an N= field.
RecordsNaming(X) == {i \in 1..Len(text) : text[i].name = X}
\* The record starting at line i has a C= line of its own: one before the
\* next line that begins a record.
HasOwnCommonName(i) ==
    \E j \in (i + 1)..Len(text) :
        /\ text[j].startsC /\ text[j].cname # ""
        /\ \A k \in (i + 1)..(j - 1) : ~BeginsRecord(text[k])

\* C16: a scientific name X all of whose records lack a C= line of their
\* own (none before the next line that begins a record, readable or not)
\* is not a key of the parser's result.
C16_NoCommonNameNoEntry ==
    parsed.done =>
        \A X \in SciNames :
            (RecordsNaming(X) # {} /\ \A i \in RecordsNaming(X) : ~HasOwnCommonName(i))
                => ~MapHas(parsed.map, X)

\* C17: once the virtual-codes header has been read in the data section,
\* no later line changes the result: it is the result of the text cut at
\* that header.
C17_StopsAtVirtualHeader ==
    parsed.done =>
        \A i \in 1..Len(text) :
            (text[i].virtual /\ \E j \in 1..(i - 1) : text[j].real) =>
                /\ parsed.map = ParseUniProtSpecList(SubSeq(text, 1, i))
                /\ parsed.map = StateAfter(i - 1).map

\* A readable record with its C= line came after the virtual-codes header
\* and left no entry.
C17_Witness ==
    /\ parsed.done /\ Len(text) = 4
    /\ text[1].real /\ text[2].virtual
    /\ text[3] = RecordLine("Canis lupus") /\ text[4] = CLine("Gray wolf")
    /\ parsed.map = EmptyMap

\* C18: the lines before the real-organism-codes header have no effect: the
\* result is that of the text starting at the first such header, also when
\* a virtual-codes header line comes before it.
C18_LinesBeforeHeaderIgnored ==
    parsed.done =>
        \A i \in 1..Len(text) :
            (text[i].real /\ \A j \in 1..(i - 1) : ~text[j].real) =>
                parsed.map = ParseUniProtSpecList(SubSeq(text, i, Len(text)))

\* C19: a record line the parser cannot read changes neither the map nor
\* the sticky scientific name, and the result is that of the text without
\* the line.
C19_MalformedHeaderSkipped ==
    parsed.done =>
        \A i \in 1..Len(text) :
            Malformed(text[i]) =>
                /\ StateAfter(i) = StateAfter(i - 1)
                /\ parsed.map = ParseUniProtSpecList(WithoutLine(i))

\* A header whose N= field cannot be extracted was read while a sticky name
\* was set; the sticky name survived it and took the C= line that followed.
C19_Witness ==
    /\ parsed.done /\ Len(text) = 4
    /\ text[1].real /\ text[2] = RecordLine("Canis lupus")
    /\ text[3] = HeaderNoNameLine /\ text[4] = CLine("Gray wolf")
    /\ StateAfter(3).cur = "Canis lupus"
    /\ parsed.map = MapSet(EmptyMap, "Canis lupus", "Gray wolf")

(***************************************************************************)
(* The iucnApi service   (apiHelpers.ts:189-571)                           *)
(* getSpeciesByCategory, getSpeciesByKingdom, getSpeciesByClass,           *)
(* getSpeciesByPage(1) and getAssessmentById(1).  svc[c] is one call:      *)
(*   pc        "fetching" (await fetchWithRetry), "parsing" (await         *)
(*             response.json()), "naming" (await getCommonNames),          *)
(*             "resolved", "rejected"                                      *)
(*   result, error   what the promise settled with                         *)
(* history: hit (answered from the cache) and the entry found, outcome     *)
(* (what fetchWithRetry gave), payload (what response.json() gave), names  *)
(* (what getCommonNames gave), write (the setCachedData call made: whether *)
(* the store took it, the key's text before and after).                    *)
(***************************************************************************)
\* 24 * 60 * 60 * 1000   (apiHelpers.ts:193)
CACHE_TTL == 24 * 60 * 60 * 1000

ListingOps == {"getSpeciesByCategory", "getSpeciesByKingdom", "getSpeciesByClass"}
CachedOps == {"getSpeciesByPage", "getAssessmentById"}

\* const cacheKey = ...   (apiHelpers.ts:454, 539)
KeyOf(op) ==
    CASE op = "getSpeciesByPage" -> "iucn_page_1"
      [] op = "getAssessmentById" -> "iucn_assessment_1"
      [] OTHER -> ""
\* The url given to fetchWithRetry   (apiHelpers.ts:382, 406, 430, 464, 548)
UrlOf(op) ==
    CASE op = "getSpeciesByCategory" -> "/red_list_categories/CR?page=1"
      [] op = "getSpeciesByKingdom" -> "/taxa/kingdom/ANIMALIA?page=1"
      [] op = "getSpeciesByClass" -> "/taxa/class/MAMMALIA?page=1"
      [] op = "getSpeciesByPage" -> "/taxa/class/MAMMALIA?page=1&latest=true"
      [] op = "getAssessmentById" -> "/assessment/1"
\* The endpoint given to ApiError on a response that is not ok
\* (apiHelpers.ts:388, 412, 436, 471, 554)
EndpointOf(op) ==
    CASE op = "getSpeciesByCategory" -> "/red_list_categories/CR"
      [] op = "getSpeciesByKingdom" -> "/taxa/kingdom/ANIMALIA"
      [] op = "getSpeciesByClass" -> "/taxa/class/MAMMALIA"
      [] op = "getSpeciesByPage" -> "/taxa/class/MAMMALIA"
      [] op = "getAssessmentById" -> "/assessment/1"

\* A thrown value that is no ApiError (SyntaxError of response.json(),
\* TypeError of new Map(), ...).
ThrownError(cls, from) ==
    [kind |-> "error", cls |-> cls, msg |-> "", n |-> 0,
     hasStatus |-> FALSE, status |-> 0,
     hasEndpoint |-> FALSE, endpoint |-> "", from |-> from]

\* What await fetchWithRetry(url) gives call number s: a response the retry
\* loop accepts, or the last error it recorded (apiHelpers.ts:62-72, 82 and
\* 39-43): the HTTP error of a status it does not accept, the timeout
\* error, or the transport error.
RetryOutcomes(url, s) ==
    {Response(st, s) : st \in {x \in {200, 404, 503} : Accepts(Response(x, s))}}
    \cup {ApiError("HTTP", st, TRUE, st, TRUE, url, s) :
             st \in {x \in {200, 404, 503} : ~Accepts(Response(x, s))}}
    \cup {ApiError("Request timeout after ms", DEFAULT_TIMEOUT, FALSE, 0, TRUE, url, s),
          NetworkError(s)}

\* What await response.json() gives:
\*   data     the document asked for (assessments: [v], or the detail v)
\*   noList   an object without assessments
\*   error    an object with an error property: { error: "..." }
\*   invalid  the body is not JSON: json() rejects with a SyntaxError
NoPayload == [kind |-> "none", v |-> 0]
Payloads ==
    {[kind |-> "data", v |-> v] : v \in {1, 2}}
    \cup {[kind |-> "noList", v |-> 0], [kind |-> "error", v |-> 0],
          [kind |-> "invalid", v |-> 0]}

\* What await getCommonNames(scientificNames) gives in getSpeciesByPage: a
\* map with the names, an empty map, or a rejection.
NamesOutcomes == {"found", "none", "rejected"}

\* data.assessments || []   (apiHelpers.ts:393, 417, 441, 483)
AssessmentsOf(payload) == IF payload.kind = "data" THEN <<payload.v>> ELSE << >>
\* The Assessment[] a listing operation returns.
ListingResult(payload) == Obj([list |-> AssessmentsOf(payload), names |-> "n/a"])
\* The Species[] built from the assessments and the common names
\* (apiHelpers.ts:491-521)
SpeciesResult(list, names) ==
    Obj([list |-> list, names |-> IF list = << >> THEN "n/a" ELSE names])
\* const data: AssessmentDetail = await response.json()   (apiHelpers.ts:558)
DetailResult(payload) == Obj([list |-> <<payload>>, names |-> "n/a"])

CatchServiceRethrowsAll(e, s) == e
\* catch (error) { if (error instanceof ApiError) throw error;
\*                 throw new ApiError('Network error while fetching ...') }
\* (apiHelpers.ts:394-400, 418-424, 442-448, 527-533, 564-570)
CatchService(e, s) ==
    IF e.cls = "ApiError" THEN e
    ELSE ApiError("Network error while fetching", 0, FALSE, 0, FALSE, "", s)

NewServiceCall(op, t) ==
    [op |-> op, pc |-> "fetching", at |-> t, result |-> Undefined,
     error |-> NoResult, hit |-> FALSE, found |-> Absent, outcome |-> NoResult,
     payload |-> NoPayload, list |-> << >>, names |-> "",
     write |-> [attempted |-> FALSE, ok |-> FALSE, before |-> Absent,
                after |-> Absent]]

ServiceBeginSkipsCache(op, st, t) == [store |-> st, call |-> NewServiceCall(op, t)]
ServiceBeginCachesAll(op, st, t) ==
    LET key == IF op \in CachedOps THEN KeyOf(op) ELSE "iucn_page_1"
        r == GetCachedData(st, key, t)
    IN  IF Truthy(r.result)
        THEN [store |-> r.store,
              call |-> [NewServiceCall(op, t) EXCEPT
                           !.pc = "resolved", !.result = r.result,
                           !.hit = TRUE, !.found = st[key]]]
        ELSE [store |-> r.store, call |-> NewServiceCall(op, t)]
\* The operation up to its first await   (apiHelpers.ts:452-465, 537-548):
\* the cached operations read the cache and return a truthy value at once.
ServiceBegin(op, st, t) ==
    IF op \in CachedOps
    THEN LET r == GetCachedData(st, KeyOf(op), t) IN
         IF Truthy(r.result)
         THEN [store |-> r.store,
               call |-> [NewServiceCall(op, t) EXCEPT
                            !.pc = "resolved", !.result = r.result,
                            !.hit = TRUE, !.found = st[KeyOf(op)]]]
         ELSE [store |-> r.store, call |-> NewServiceCall(op, t)]
    ELSE [store |-> st, call |-> NewServiceCall(op, t)]

\* After await fetchWithRetry(...)   (apiHelpers.ts:382-390, 463-473,
\* 548-556): a thrown error and a response that is not ok both end in the
\* catch block.
AfterFetchWithRetry(call, outcome, s) ==
    IF outcome.kind = "error"
    THEN [call EXCEPT !.pc = "rejected", !.outcome = outcome,
                      !.error = CatchService(outcome, s)]
    ELSE IF ~Ok(outcome)
    THEN [call EXCEPT !.pc = "rejected", !.outcome = outcome,
                      !.error = CatchService(
                          ApiError("Failed to fetch", 0, TRUE, outcome.status,
                                   TRUE, EndpointOf(call.op), s), s)]
    ELSE [call EXCEPT !.pc = "parsing", !.outcome = outcome]

CacheAndReturnKeepsFirst(call, value, st, t, quotaOk, s) ==
    LET key == KeyOf(call.op)
        w == IF st[key] = Absent
             THEN SetCachedData(st, key, value, Ttl(CACHE_TTL), t, quotaOk)
             ELSE [store |-> st, threw |-> FALSE]
        made == [attempted |-> TRUE, ok |-> quotaOk,
                 before |-> st[key], after |-> w.store[key]]
    IN  [store |-> w.store,
         call |-> [call EXCEPT !.pc = "resolved", !.write = made,
                               !.result = value]]
\* setCachedData(cacheKey, value, { ttl: CACHE_TTL }); return value
\* (apiHelpers.ts:523-526, 560-563): an exception out of setCachedData
\* would land in the catch block.
CacheAndReturn(call, value, st, t, quotaOk, s) ==
    LET key == KeyOf(call.op)
        w == SetCachedData(st, key, value, Ttl(CACHE_TTL), t, quotaOk)
        made == [attempted |-> TRUE, ok |-> quotaOk,
                 before |-> st[key], after |-> w.store[key]]
    IN  IF w.threw
        THEN [store |-> w.store,
              call |-> [call EXCEPT !.pc = "rejected", !.write = made,
                           !.error = CatchService(ThrownError("QuotaExceededError", s), s)]]
        ELSE [store |-> w.store,
              call |-> [call EXCEPT !.pc = "resolved", !.write = made,
                                    !.result = value]]

\* After await response.json()   (apiHelpers.ts:392-393, 475-489, 558-563)
AfterJson(call, payload, st, t, quotaOk, s) ==
    LET c1 == [call EXCEPT !.payload = payload] IN
    IF payload.kind = "invalid"
    THEN [store |-> st,
          call |-> [c1 EXCEPT !.pc = "rejected",
                       !.error = CatchService(ThrownError("SyntaxError", s), s)]]
    ELSE IF call.op \in ListingOps
    THEN [store |-> st,
          call |-> [c1 EXCEPT !.pc = "resolved", !.result = ListingResult(payload)]]
    ELSE IF call.op = "getSpeciesByPage"
    THEN IF payload.kind = "error"
         THEN [store |-> st,
               call |-> [c1 EXCEPT !.pc = "rejected",
                            !.error = CatchService(
                                ApiError("data.error", 0, FALSE, 0, FALSE, "", s), s)]]
         ELSE [store |-> st,
               call |-> [c1 EXCEPT !.pc = "naming", !.list = AssessmentsOf(payload)]]
    ELSE CacheAndReturn(c1, DetailResult(payload), st, t, quotaOk, s)

\* After await getCommonNames(scientificNames)   (apiHelpers.ts:489-526)
AfterGetCommonNames(call, names, st, t, quotaOk, s) ==
    LET c1 == [call EXCEPT !.names = names] IN
    IF names = "rejected"
    THEN [store |-> st,
          call |-> [c1 EXCEPT !.pc = "rejected",
                       !.error = CatchService(ThrownError("TypeError", s), s)]]
    ELSE CacheAndReturn(c1, SpeciesResult(call.list, names), st, t, quotaOk, s)

ServiceCall(op) ==
    /\ Len(svc) < MaxCalls
    /\ LET b == ServiceBegin(op, store, now) IN
          /\ store' = b.store
          /\ svc' = Append(svc, b.call)
    /\ UNCHANGED <<app, hero, views, text, parsed, now, cacheOp, written, ft, fr, loaderVars>>

ServiceFetchSettles(c, outcome) ==
    /\ svc[c].pc = "fetching"
    /\ svc' = [svc EXCEPT ![c] = AfterFetchWithRetry(svc[c], outcome, c)]
    /\ UNCHANGED <<app, hero, views, text, parsed, now, cacheVars, ft, fr, loaderVars>>

ServiceBodyArrives(c, payload, quotaOk) ==
    /\ svc[c].pc = "parsing"
    /\ LET r == AfterJson(svc[c], payload, store, now, quotaOk, c) IN
          /\ store' = r.store
          /\ svc' = [svc EXCEPT ![c] = r.call]
    /\ UNCHANGED <<app, hero, views, text, parsed, now, cacheOp, written, ft, fr, loaderVars>>

ServiceNamesArrive(c, names, quotaOk) ==
    /\ svc[c].pc = "naming"
    /\ LET r == AfterGetCommonNames(svc[c], names, store, now, quotaOk, c) IN
          /\ store' = r.store
          /\ svc' = [svc EXCEPT ![c] = r.call]
    /\ UNCHANGED <<app, hero, views, text, parsed, now, cacheOp, written, ft, fr, loaderVars>>

\* The clock moves by 1 ms from a whole number of days past Epoch, or by a
\* day (CACHE_TTL ms), up to MaxDays days and 1 ms.
ServiceAdvance ==
    /\ \/ (now - Epoch) % CACHE_TTL = 0 /\ now' = now + 1
       \/ now + CACHE_TTL <= Epoch + MaxDays * CACHE_TTL + 1 /\ now' = now + CACHE_TTL
    /\ UNCHANGED <<app, hero, views, text, parsed, svc, cacheVars, ft, fr, loaderVars>>

NextService ==
    \/ \E op \in ListingOps \cup CachedOps : ServiceCall(op)
    \/ \E c \in 1..Len(svc) :
          \E outcome \in RetryOutcomes(UrlOf(svc[c].op), c) :
              ServiceFetchSettles(c, outcome)
    \/ \E c \in 1..Len(svc), payload \in Payloads, quotaOk \in BOOLEAN :
          ServiceBodyArrives(c, payload, quotaOk)
    \/ \E c \in 1..Len(svc), names \in NamesOutcomes, quotaOk \in BOOLEAN :
          ServiceNamesArrive(c, names, quotaOk)
    \/ ServiceAdvance

SpecService == InitCommon /\ [][NextService]_vars

ServiceCalls == 1..Len(svc)
\* The value the call built from what it fetched.
FreshResult(call) ==
    CASE call.op \in ListingOps -> ListingResult(call.payload)
      [] call.op = "getSpeciesByPage" -> SpeciesResult(call.list, call.names)
      [] call.op = "getAssessmentById" -> DetailResult(call.payload)

\* C13: setCachedData never throws.  When the store refuses the write, the
\* key keeps the text it had and the calling operation still returns what
\* it fetched: getSpeciesByPage and getAssessmentById resolve with their
\* fresh result, and the species-list loader, whatever text it parsed,
\* returns the same map as when the write succeeds and leaves the store
\* alone.
C13_WriteFailureSwallowed ==
    /\ \A c \in ServiceCalls :
          (svc[c].write.attempted /\ ~svc[c].write.ok) =>
              /\ svc[c].write.after = svc[c].write.before
              /\ svc[c].pc = "resolved"
              /\ svc[c].result = FreshResult(svc[c])
    /\ \A body \in LoaderBodies :
          LET refused == LoadAfterText(body, store, now, FALSE)
              stored == LoadAfterText(body, store, now, TRUE)
          IN  /\ refused.store = store
              /\ refused.map = stored.map
              /\ refused.failed = stored.failed

\* Two getSpeciesByPage calls overlapped; the first cached its page, the
\* store refused the second's write: the first's entry stayed and the
\* second still resolved with the species it had fetched.
C13_Witness ==
    \E c \in ServiceCalls :
        /\ svc[c].op = "getSpeciesByPage"
        /\ svc[c].write.attempted /\ ~svc[c].write.ok
        /\ svc[c].write.before # Absent /\ store[KeyOf(svc[c].op)] = svc[c].write.before
        /\ svc[c].pc = "resolved" /\ svc[c].result = SpeciesResult(<<2>>, "found")
        /\ PropValue(svc[c].write.before) = SpeciesResult(<<1>>, "found")

\* The request of the call failed: fetchWithRetry threw (retries used up,
\* timeout, transport error), the final response is not 2xx, or the body
\* is an error payload.
RequestFailed(call) ==
    \/ call.outcome.kind = "error"
    \/ call.outcome.kind = "response" /\ ~Ok(call.outcome)
    \/ call.payload.kind = "error"

\* C20: a service operation resolves only with the value of a fresh cache
\* entry or with data built from a 2xx response, and otherwise rejects; a
\* call whose request failed does not resolve and writes nothing to the
\* cache.
C20_FailureNeverResolves ==
    \A c \in ServiceCalls :
        /\ svc[c].pc = "resolved" =>
              IF svc[c].hit
              THEN /\ svc[c].found.t = "obj"
                   /\ ~IsExpired(svc[c].found, svc[c].at)
                   /\ svc[c].result = PropValue(svc[c].found)
              ELSE /\ svc[c].outcome.kind = "response" /\ Ok(svc[c].outcome)
                   /\ svc[c].result = FreshResult(svc[c])
        /\ RequestFailed(svc[c]) =>
              /\ svc[c].pc = "rejected"
              /\ ~svc[c].write.attempted

\* The ApiError the catch block of a service operation makes of a thrown
\* value that is no ApiError.
Wrapped(c) == ApiError("Network error while fetching", 0, FALSE, 0, FALSE, "", c)

\* C21: every rejection of a service operation is an ApiError.  An ApiError
\* raised inside (the last error of fetchWithRetry, the error of a response
\* that is not ok) is rethrown as it is; a thrown value of another class (a
\* transport error, a body that is not JSON, a rejection of getCommonNames)
\* is replaced by a new ApiError.
C21_RejectionsAreApiErrors ==
    \A c \in ServiceCalls :
        svc[c].pc = "rejected" =>
            /\ svc[c].error.cls = "ApiError"
            /\ (svc[c].outcome.kind = "error" /\ svc[c].outcome.cls = "ApiError")
                   => svc[c].error = svc[c].outcome
            /\ (svc[c].outcome.kind = "response" /\ ~Ok(svc[c].outcome))
                   => svc[c].error =
                          ApiError("Failed to fetch", 0, TRUE, svc[c].outcome.status,
                                   TRUE, EndpointOf(svc[c].op), c)
            /\ (\/ svc[c].outcome.kind = "error" /\ svc[c].outcome.cls # "ApiError"
                \/ svc[c].payload.kind = "invalid"
                \/ svc[c].names = "rejected")
                   => svc[c].error = Wrapped(c)

\* The common-name lookup of a page rejected and the call was rejected with
\* the new ApiError; another call rethrew the ApiError of fetchWithRetry.
C21_Witness ==
    /\ \E c \in ServiceCalls :
          /\ svc[c].pc = "rejected" /\ svc[c].names = "rejected"
          /\ svc[c].error = Wrapped(c)
    /\ \E c \in ServiceCalls :
          /\ svc[c].pc = "rejected" /\ svc[c].outcome.kind = "error"
          /\ svc[c].outcome.cls = "ApiError" /\ svc[c].error = svc[c].outcome

\* C22: when fetchWithRetry gave up (server errors on every attempt, a
\* timeout or a transport failure on the last one), the ApiError the
\* service operation throws has its endpoint field set, and it names the
\* url that was requested.
C22_ErrorNamesEndpoint ==
    \A c \in ServiceCalls :
        (svc[c].pc = "rejected" /\ svc[c].outcome.kind = "error") =>
            /\ svc[c].error.hasEndpoint
            /\ svc[c].error.endpoint = UrlOf(svc[c].op)

\* The calls of the step: the one it starts and the ones it resumes.
StepsOf(c) == c > Len(svc) \/ svc'[c] # svc[c]
\* The step starts call number c.
Starts(c) == c = Len(svc) + 1 /\ Len(svc') = c
\* An earlier call of the same operation has resolved and started no more
\* than CACHE_TTL ago.
ResolvedBefore(op) ==
    \E c \in ServiceCalls :
        /\ svc[c].op = op /\ svc[c].pc = "resolved"
        /\ now - svc[c].at <= CACHE_TTL

\* C23 as claimed: a listing call (category, kingdom, class) made when an
\* earlier call with the same arguments has resolved and its result is
\* still fresh is served from the cache, without a network request.
C23_ListingsReuseResults ==
    [][\A c \in 1..Len(svc') :
           (Starts(c) /\ svc'[c].op \in ListingOps /\ ResolvedBefore(svc'[c].op))
               => svc'[c].hit /\ svc'[c].pc = "resolved"]_vars

\* C23 amended: the listing operations do not use the TTL cache.  Every
\* call of them starts a network request, whatever earlier calls returned
\* and whatever the store holds, and no step of a listing call reads,
\* removes or writes a store entry.
C23_ListingsBypassCache ==
    [][\A c \in 1..Len(svc') :
           (StepsOf(c) /\ svc'[c].op \in ListingOps) =>
               /\ store' = store
               /\ ~svc'[c].hit /\ ~svc'[c].write.attempted
               /\ Starts(c) => svc'[c].pc = "fetching"]_vars

\* The same listing operation was called twice; the first call resolved
\* with the list of a 200 response, the second one went to the network as
\* well, and the store is still empty.
C23_Witness ==
    \E c1, c2 \in ServiceCalls :
        /\ c1 < c2 /\ svc[c1].op = svc[c2].op /\ svc[c1].op \in ListingOps
        /\ svc[c1].pc = "resolved" /\ svc[c1].result = ListingResult([kind |-> "data", v |-> 1])
        /\ svc[c2].at = svc[c1].at
        /\ svc[c2].outcome.kind = "response" /\ ~svc[c2].hit
        /\ \A k \in Keys : store[k] = Absent

\* An earlier call of the operation succeeded and the entry it wrote under
\* the key of the operation is still there, no older than CACHE_TTL.
CachedAndFresh(op) ==
    /\ store[KeyOf(op)].t = "obj"
    /\ now - store[KeyOf(op)].ts <= CACHE_TTL
    /\ \E c \in ServiceCalls :
          /\ svc[c].op = op /\ svc[c].pc = "resolved"
          /\ svc[c].write.attempted /\ svc[c].write.ok
          /\ svc[c].write.after = store[KeyOf(op)]

C25_PageSurvivesEnrichmentFailure ==
    \A c \in ServiceCalls :
        (/\ svc[c].op = "getSpeciesByPage"
         /\ svc[c].payload.kind \in {"data", "noList"}
         /\ svc[c].names # "") =>
            /\ svc[c].pc = "resolved"
            /\ svc[c].write.attempted
            /\ svc[c].names \in {"none", "rejected"}
                   => svc[c].result = SpeciesResult(svc[c].list, "none")

(***************************************************************************)
(* The views that call the service (src/unnamed/part_001): the effect      *)
(* loadSpecies of SpeciesList (514-568) calls getSpeciesByPage and the     *)
(* effect loadSpeciesData of SpeciesDetailView (49-74) calls               *)
(* getAssessmentById.  Both look into sessionStorage under the key the     *)
(* service uses before they call it, and store what it returned under      *)
(* that key afterwards.  A run of an effect is named by the operation it   *)
(* calls.  The keys iucn_current_page, iucn_species_list and iucn_videos_*  *)
(* belong to the views alone and are left out.                             *)
(***************************************************************************)
\* JSON.stringify(data) of a value that is no envelope   (part_001:69, 549)
StringifyBare(v) ==
    [t |-> "obj", hasValue |-> FALSE, value |-> Undefined, hasTs |-> FALSE,
     ts |-> 0, hasTtl |-> FALSE, ttl |-> 0, self |-> v]

\* A run of the effect that found nothing under the key: setLoading(true)
\* and the service call number c   (part_001:63-65, 533-538)
NewView(op, c) ==
    [op |-> op, pc |-> "awaiting", call |-> c, loading |-> TRUE,
     error |-> FALSE, raw |-> Absent]

\* The promise a run awaits has settled: its continuation is a microtask
\* and runs before any timer, network event or effect.
ViewPending ==
    \E v \in 1..Len(views) :
        views[v].pc = "awaiting" /\ svc[views[v].call].pc \in {"resolved", "rejected"}

\* The effect up to its await or return   (part_001:50-65, 515-538):
\* sessionStorage.getItem(cacheKey); a text that is there is parsed and
\* shown (JSON.parse throws on a text that is not JSON, outside any try),
\* otherwise the service operation is called.
ViewMount(op) ==
    /\ Len(views) < MaxViews
    /\ ~ViewPending
    /\ LET item == store[KeyOf(op)] IN
       IF item # Absent
       THEN /\ views' = Append(views,
                   [NewView(op, 0) EXCEPT
                       !.pc = IF item.t = "obj" THEN "done" ELSE "crashed",
                       !.loading = item.t # "obj", !.raw = item])
            /\ UNCHANGED <<store, svc>>
       ELSE /\ Len(svc) < MaxCalls
            /\ LET b == ServiceBegin(op, store, now) IN
                  /\ store' = b.store
                  /\ svc' = Append(svc, b.call)
            /\ views' = Append(views, NewView(op, Len(svc) + 1))
    /\ UNCHANGED <<app, hero, text, parsed, now, cacheOp, written, ft, fr, loaderVars>>

\* The effect after its await   (part_001:65-70, 538-565).  The data is
\* shown and stored with sessionStorage.setItem(cacheKey,
\* JSON.stringify(data)); quotaOk = FALSE when setItem throws.  loadSpecies
\* catches what is thrown, sets the error and ends with setLoading(false);
\* loadSpeciesData has no try, so a rejection or a throw ends it before
\* its setLoading(false).
ViewResume(v, quotaOk) ==
    /\ views[v].pc = "awaiting"
    /\ svc[views[v].call].pc \in {"resolved", "rejected"}
    /\ LET call == svc[views[v].call]
           key == KeyOf(views[v].op)
           threw == call.pc = "rejected" \/ ~quotaOk
           caught == views[v].op = "getSpeciesByPage"
       IN  /\ store' = IF call.pc = "resolved" /\ quotaOk
                       THEN [store EXCEPT ![key] = StringifyBare(call.result)]
                       ELSE store
           /\ views' = [views EXCEPT
                 ![v].pc = IF threw /\ ~caught THEN "crashed" ELSE "done",
                 ![v].error = threw /\ caught,
                 ![v].loading = threw /\ ~caught]
    /\ UNCHANGED <<app, hero, text, parsed, svc, now, cacheOp, written, ft, fr, loaderVars>>

NextViews ==
    \/ \E op \in CachedOps : ViewMount(op)
    \/ \E v \in 1..Len(views), quotaOk \in BOOLEAN : ViewResume(v, quotaOk)
    \/ /\ ~ViewPending
       /\ \E c \in 1..Len(svc) :
             \E outcome \in RetryOutcomes(UrlOf(svc[c].op), c) :
                 ServiceFetchSettles(c, outcome)
    \/ /\ ~ViewPending
       /\ \E c \in 1..Len(svc), payload \in Payloads, quotaOk \in BOOLEAN :
             ServiceBodyArrives(c, payload, quotaOk)
    \/ /\ ~ViewPending
       /\ \E c \in 1..Len(svc), names \in NamesOutcomes, quotaOk \in BOOLEAN :
             ServiceNamesArrive(c, names, quotaOk)
    \/ ~ViewPending /\ ServiceAdvance

SpecViews == InitCommon /\ [][NextViews]_vars

\* The text is an envelope as setCachedData writes it with a ttl.
IsEnvelope(item) ==
    item.t = "obj" /\ item.hasValue /\ item.hasTs /\ item.hasTtl

\* C26: whatever the session store holds under a key of the core is a
\* {value, _timestamp, _ttl} envelope written by setCachedData, and no view
\* takes its data from a text it read from the store itself.
C26_CoreKeysHoldEnvelopes ==
    /\ \A k \in Keys : store[k] = Absent \/ IsEnvelope(store[k])
    /\ \A v \in 1..Len(views) : views[v].raw = Absent

\* The load took the persisted list from the TTL cache and its caller has
\* not run yet: the clock still shows the instant of the lookup.
JustAdopted(id) ==
    /\ loads[id].state = "fulfilled" /\ ~loads[id].fetched /\ ~loads[id].failed
    /\ loads[id].reactions # << >>

\* C27: the persisted species list lives 24 hours (86 400 000 ms).  A
\* loader that finds it in the store adopts it only while it is no older
\* than that; past 24 hours it fetches again.
C27_PersistedListLivesADay ==
    \A id \in 1..Len(loads) :
        JustAdopted(id) => now - store[UNIPROT_KEY].ts <= 24 * 60 * 60 * 1000

\* C28 as claimed: fetchWithRetry makes 3 attempts, waits 1000 * 2^k ms and
\* gives each attempt 30000 ms unless the caller says otherwise, and an
\* attempt count, a base delay or a per-attempt timeout the caller supplies
\* is the one applied.
C28_PolicyOverridable ==
    /\ fr.pc # "idle" =>
          fr.maxRetries = IF fr.args.maxRetries = Undefined THEN 3
                          ELSE fr.args.maxRetries.n
    /\ fr.pc = "fetching" =>
          fr.inner.timeout = IF fr.args.timeout = Undefined THEN 30000
                             ELSE fr.args.timeout.n
    /\ fr.pc # "idle" =>
          fr.delays = [k \in 1..Len(fr.delays) |->
                          (IF fr.args.delay = Undefined THEN 1000
                           ELSE fr.args.delay.n) * Pow2(k - 1)]

\* C28 amended: only the attempt count can be set per call.  It is 3 when
\* the caller gives none and the caller's number otherwise, and no more
\* requests than that are made; the wait after failed attempt k is always
\* 1000 * 2^k ms and every attempt always has 30000 ms, whatever base
\* delay or timeout the caller asks for.
C28_OnlyAttemptCountOverridable ==
    /\ fr.pc # "idle" =>
          /\ fr.maxRetries = IF fr.args.maxRetries = Undefined THEN 3
                             ELSE fr.args.maxRetries.n
          /\ fr.requests <= IF fr.maxRetries > 0 THEN fr.maxRetries ELSE 0
          /\ (fr.pc = "threw" /\ fr.maxRetries > 0) => fr.requests = fr.maxRetries
          /\ fr.delays = [k \in 1..Len(fr.delays) |-> 1000 * Pow2(k - 1)]
    /\ fr.pc = "fetching" =>
          /\ fr.inner.timeout = 30000
          /\ fr.inner.deadline = fr.inner.startedAt + 30000

\* A caller asked for 2 attempts, a base delay and a timeout of its own:
\* two requests were made, the wait between them was 1000 ms, and the
\* second attempt ran into the 30000 ms timeout.
C28_Witness ==
    /\ fr.args = [maxRetries |-> Num(2), delay |-> Num(Quantum),
                  timeout |-> Num(Quantum)]
    /\ fr.pc = "threw" /\ fr.requests = 2 /\ fr.delays = <<1000>>
    /\ fr.result.msg = "Request timeout after ms" /\ fr.result.n = 30000
    /\ now = fr.inner.startedAt + 30000

\* Where the loader stands, by its two module variables (part_000:11-12).
LoaderState(sc, cp) ==
    CASE sc = 0 /\ cp = 0 -> "Unloaded"
      [] sc = 0 /\ cp # 0 -> "Loading"
      [] sc # 0 /\ cp = 0 -> "Loaded"
      [] OTHER -> "none"

\* The moves of the loader: it stays, or goes one state forward.
OneWay(from, to) ==
    <<from, to>> \in { <<"Unloaded", "Unloaded">>, <<"Unloaded", "Loading">>,
                       <<"Loading", "Loading">>, <<"Loading", "Loaded">>,
                       <<"Loaded", "Loaded">> }

FreshPersisted ==
    LET item == store[UNIPROT_KEY] IN
    /\ item.t = "obj" /\ item.hasValue /\ item.hasTs /\ item.hasTtl
    /\ item.value.k = "entries"
    /\ now - item.ts <= item.ttl
\* Two maps with the same keys and the same values.
SameEntries(a, b) ==
    \A n \in DOMAIN a \cup DOMAIN b : MapGet(a, n) = MapGet(b, n)

\* C30: when the first lookup finds a fresh persisted species list in the
\* TTL cache, the load it starts is settled at once with a map that has
\* exactly the entries of the map that was persisted; no request is issued
\* then or later, the store is left as it is, and that map is the one the
\* loader keeps.
C30_FreshPersistedListAdopted ==
    /\ [][(Len(loads) = 0 /\ Len(loads') = 1 /\ FreshPersisted) =>
             /\ loads'[1].state = "fulfilled" /\ ~loads'[1].fetched
             /\ fetchCount' = 0
             /\ store' = store
             /\ SameEntries(maps'[loads'[1].value], PersistedMap)]_vars
    /\ []((Len(loads) >= 1 /\ loads[1].state = "fulfilled" /\ ~loads[1].fetched) =>
             /\ fetchCount = 0
             /\ speciesCache # 0 =>
                   /\ speciesCache = loads[1].value
                   /\ SameEntries(maps[speciesCache], PersistedMap))

\* The list persisted 500 hours earlier was adopted without a request and
\* a lookup was answered from it.
C30_Witness ==
    /\ now = Epoch + UNIPROT_CACHE_TTL
    /\ fetchCount = 0 /\ speciesCache # 0
    /\ MapGet(maps[speciesCache], "Felis catus") = "Cat"
    /\ MapSize(maps[speciesCache]) = 1
    /\ \E c \in CallerIds :
          /\ callers[c].op = "getCommonNames" /\ callers[c].pc = "done"
          /\ MapGet(callers[c].result.m, "Felis catus") = "Cat"

\* The step is the one in which load id ends in failure.
FailsNow(id) == loads'[id].failed /\ (id > Len(loads) \/ ~loads[id].failed)

\* C31: the step in which a load fails (a response that is not ok, a fetch
\* error or timeout, a text that cannot be read or is shorter than 1000
\* characters, no parsed entry) leaves the whole store as it was; and an
\* entry appears under uniprot_species_list only in the step in which a
\* load that read its text ends without failure, and it is the envelope of
\* the entries of that load's map, which is not empty.
C31_FailedLoadWritesNothing ==
    /\ [][\A id \in 1..Len(loads') : FailsNow(id) => store' = store]_vars
    /\ [][(store'[UNIPROT_KEY] # store[UNIPROT_KEY] /\ store'[UNIPROT_KEY] # Absent) =>
             \E id \in 1..Len(loads) :
                 /\ loads[id].state = "reading" /\ loads'[id].state = "fulfilled"
                 /\ ~loads'[id].failed
                 /\ MapSize(maps'[loads'[id].value]) > 0
                 /\ store'[UNIPROT_KEY] =
                        StringifyEnvelope(Entries(maps'[loads'[id].value]), now,
                                          Ttl(UNIPROT_CACHE_TTL))]_vars

\* A load got a 2xx response and read its text, failed all the same, and
\* the unreadable text that was under the key is still there.
C31_Witness ==
    \E id \in 1..Len(loads) :
        /\ loads[id].failed /\ loads[id].fetched
        /\ loads[id].net.pc = "resolved" /\ Ok(loads[id].net.result)
        /\ maps[loads[id].value] = EmptyMap
        /\ store[UNIPROT_KEY] = Garbage

\* Line i is read by the loop body in the data section: the pass has met the
\* real-organism header and not the virtual one, and the line is none of
\* the lines the loop skips.
ReadInData(i) ==
    /\ StateAfter(i - 1).inData /\ ~StateAfter(i - 1).done
    /\ ~text[i].real /\ ~text[i].virtual /\ ~text[i].sep /\ ~text[i].blank
\* No header the parser reads lies strictly between lines i and j.
NoHeaderBetween(i, j) ==
    \A k \in (i + 1)..(j - 1) : ~(text[k].header /\ text[k].nMatch)

\* C32: an S= line read in the data section never changes the map; when the
\* sticky name is set and has no entry in the map, it clears the sticky
\* name and does nothing else, and every C= line up to the next header the
\* parser reads leaves the map as it was; otherwise it changes nothing.
C32_SynonymLineClearsUnnamed ==
    parsed.done =>
        \A i \in 1..Len(text) :
            (text[i].startsS /\ ReadInData(i)) =>
                LET before == StateAfter(i - 1)
                    after == StateAfter(i)
                IN /\ after.map = before.map
                   /\ IF before.cur # "" /\ ~MapHas(before.map, before.cur)
                      THEN /\ after = [before EXCEPT !.cur = ""]
                           /\ \A j \in (i + 1)..Len(text) :
                                  (text[j].startsC /\ NoHeaderBetween(i, j)) =>
                                      StateAfter(j).map = before.map
                      ELSE after = before

\* A record with no common name yet met an S= line, and the C= line after
\* it recorded nothing.
C32_Witness ==
    /\ parsed.done /\ Len(text) = 4
    /\ text[1].real /\ text[2] = RecordLine("Canis lupus")
    /\ text[3] = SLine /\ text[4] = CLine("Gray wolf")
    /\ StateAfter(2).cur = "Canis lupus" /\ StateAfter(3).cur = ""
    /\ parsed.map = EmptyMap

\* C33 as stated: every C= line read in the data section while the sticky
\* name is set leaves an entry for that name holding the text after C=, and
\* leaves the sticky name unchanged; read while the sticky name is empty it
\* changes nothing.
C33_EveryCLineRecords ==
    parsed.done =>
        \A i \in 1..Len(text) :
            (text[i].startsC /\ ReadInData(i)) =>
                LET before == StateAfter(i - 1)
                    after == StateAfter(i)
                IN IF before.cur # ""
                   THEN /\ MapHas(after.map, before.cur)
                        /\ after.map[before.cur] = text[i].cname
                        /\ after.cur = before.cur
                   ELSE after = before

\* C33, amended: a C= line with text after C=, read while the sticky name
\* is set, sets the entry of that name to the text, overwriting an earlier
\* one, and changes nothing else; a C= line read while the sticky name is
\* empty, or with nothing after C=, changes nothing.
C33_NonEmptyCLineRecords ==
    parsed.done =>
        \A i \in 1..Len(text) :
            (text[i].startsC /\ ReadInData(i)) =>
                LET before == StateAfter(i - 1)
                    after == StateAfter(i)
                IN IF before.cur # "" /\ text[i].cname # ""
                   THEN /\ after = [before EXCEPT
                                       !.map = MapSet(@, before.cur, text[i].cname)]
                        /\ MapHas(after.map, before.cur)
                        /\ after.map[before.cur] = text[i].cname
                   ELSE after = before

\* A record took the common name of its first C= line; the C= line with
\* nothing after C= that followed did not touch the entry.
C33_Witness ==
    /\ parsed.done /\ Len(text) = 4
    /\ text[1].real /\ text[2] = RecordLine("Canis lupus")
    /\ text[3] = CLine("Gray wolf") /\ text[4] = CLine("")
    /\ StateAfter(4).cur = "Canis lupus"
    /\ parsed.map = MapSet(EmptyMap, "Canis lupus", "Gray wolf")

\* The entry (X -> c) comes from a C= line of a record of X: a header the
\* parser reads names X, a later C= line holds c, and no line between the
\* two begins a record.
OwnCommonName(X, c) ==
    \E i \in 1..Len(text) : \E j \in (i + 1)..Len(text) :
        /\ text[i].header /\ text[i].nMatch /\ text[i].name = X
        /\ text[j].startsC /\ text[j].cname = c
        /\ \A k \in (i + 1)..(j - 1) : ~BeginsRecord(text[k])

\* C36: every entry of the parser's result holds a common name taken from
\* a C= line of a record of its scientific name; the C= line of a record
\* whose first line the parser cannot read is never given to the record
\* before it.
C36_EntriesComeFromOwnRecord ==
    parsed.done =>
        \A X \in SciNames :
            MapHas(parsed.map, X) => OwnCommonName(X, parsed.map[X])

\* C34: a getCachedData(k) leaves every other key as it was, changes the
\* entry of k only by removing it, and only when it is expired, and leaves
\* the whole store unchanged on a missing, fresh or unreadable entry; a
\* setCachedData(k, ...) leaves every other key as it was.
C34_CacheCallsTouchOnlyTheirKey ==
    [][\A k \in Keys :
          /\ (cacheOp'.op = "get" /\ cacheOp'.key = k) =>
                /\ \A j \in Keys \ {k} : store'[j] = store[j]
                /\ store'[k] # store[k] =>
                      /\ store'[k] = Absent
                      /\ store[k].t = "obj" /\ IsExpired(store[k], now)
                /\ (store[k].t # "obj" \/ ~IsExpired(store[k], now)) =>
                      store' = store
          /\ (cacheOp'.op = "set" /\ cacheOp'.key = k) =>
                \A j \in Keys \ {k} : store'[j] = store[j]]_vars

\* A read removed the expired entry of its key while the other key kept
\* the entry written to it, and the text that is not JSON was read and
\* left where it was.
C34_Witness ==
    /\ cacheOp.op = "get"
    /\ cacheOp.found.t = "obj" /\ IsExpired(cacheOp.found, cacheOp.at)
    /\ store[cacheOp.key] = Absent
    /\ \E j \in CacheKeys \ {cacheOp.key} : store[j].t = "obj"

\* The getSpeciesByPage calls that went to the network.
PageFetches == {c \in ServiceCalls : svc[c].op = "getSpeciesByPage" /\ ~svc[c].hit}
\* Call c returns its species in this step.
Returns(c) == svc[c].pc = "naming" /\ svc'[c].pc = "resolved"

\* C35: getSpeciesByPage calls that overlap each make their own request
\* and each resolve with the species built from their own response; the
\* call that returns puts its own value and the time of its return under
\* the page key, whatever another call had put there, and nothing but
\* such a return (or the read of a beginning call removing an expired
\* entry) changes the key: after both have returned the entry is that of
\* the call that returned last.
C35_LastWriterWins ==
    /\ [](\A c \in PageFetches :
            /\ svc[c].pc \in {"parsing", "naming", "resolved"} =>
                  svc[c].outcome = Response(svc[c].outcome.status, c)
            /\ svc[c].names \in {"found", "none"} =>
                  /\ svc[c].pc = "resolved"
                  /\ svc[c].result = SpeciesResult(svc[c].list, svc[c].names))
    /\ [][\A c \in PageFetches :
            Returns(c) =>
                IF svc'[c].write.ok
                THEN store'["iucn_page_1"] =
                         StringifyEnvelope(svc'[c].result, now, Ttl(CACHE_TTL))
                ELSE store' = store]_vars
    /\ [][store'["iucn_page_1"] # store["iucn_page_1"] =>
            \/ \E c \in PageFetches : Returns(c) /\ svc'[c].write.ok
            \/ Len(svc') > Len(svc) /\ store'["iucn_page_1"] = Absent]_vars

\* Two getSpeciesByPage calls were in flight together and fetched
\* different pages of data; the first returned at Epoch, the second a
\* millisecond later: the key holds the second's species and time.
C35_Witness ==
    /\ PageFetches = {1, 2}
    /\ svc[1].pc = "resolved" /\ svc[2].pc = "resolved"
    /\ svc[1].write.ok /\ svc[2].write.ok
    /\ svc[1].result # svc[2].result
    /\ svc[2].at = Epoch /\ svc[1].write.after.ts = Epoch
    /\ svc[2].write.before = svc[1].write.after
    /\ store["iucn_page_1"] =
           StringifyEnvelope(svc[2].result, Epoch + 1, Ttl(CACHE_TTL))

\* C40: a run of SpeciesDetailView's loadSpeciesData that called
\* getAssessmentById has loading = false once the request has settled and
\* the run has gone on, whether the request resolved or rejected.
C40_DetailLoadingEnds ==
    \A v \in 1..Len(views) :
        (views[v].op = "getAssessmentById" /\ views[v].call # 0
            /\ views[v].pc # "awaiting") => ~views[v].loading

(***************************************************************************)
(* The loader under the assumption that the environment answers: promise   *)
(* reactions are microtasks and always run; every request of the species   *)
(* list is answered or fails (or is aborted by its timer); every           *)
(* response.text() settles.                                                *)
(***************************************************************************)
SpecLoaderFair ==
    /\ SpecLoader
    /\ WF_vars(\E id \in 1..Len(loads) : RunReaction(id))
    /\ WF_vars(\E id \in 1..Len(loads) :
                  \/ LoadFetchFails(id)
                  \/ LoadTimerFires(id)
                  \/ \E st \in LoaderStatuses : LoadResponseArrives(id, st))
    /\ WF_vars(\E id \in 1..Len(loads), body \in LoaderBodies, quotaOk \in BOOLEAN :
                  LoadBodyArrives(id, body, quotaOk))

\* Call number c has been made and has settled.
Settled(c) == Len(callers) >= c /\ callers[c].pc \in {"done", "rejected"}
\* The call made in this step awaits a promise that has already rejected
\* for an earlier call.
JoinsRejected ==
    /\ Len(callers') > Len(callers)
    /\ \E c \in CallerIds :
          /\ callers[c].pc = "rejected"
          /\ callers[c].promise = callers'[Len(callers')].promise

\* C37: with the environment answering, every call of getCommonName,
\* getCommonNames and preloadUniProtData made settles, the loader ends up
\* holding a map and no promise once a call has been made, and no call is
\* handed a promise that has already rejected for an earlier call.
C37_EveryCallSettlesLoaded ==
    /\ \A c \in 1..MaxCallers : (Len(callers) >= c) ~> Settled(c)
    /\ (Len(callers) > 0) ~> (speciesCache # 0 /\ cachePromise = 0)
    /\ [][~JoinsRejected]_vars

(***************************************************************************)
(* The App component   (src/src/App.tsx:8-30).  app is its state:          *)
(*   env          the required variables import.meta.env defines           *)
(*   envValid, missingVars   the two useState cells (App.tsx:9-10)         *)
(*   shown        envValid as the last render saw it: the value the        *)
(*                effects of that render close over                        *)
(*   pending      a state cell was set since the last render               *)
(*   pc           "unmounted", "validate" and "preload" (the effect due    *)
(*                next), "idle"                                            *)
(*   validated    history: validateEnvironment has been called             *)
(***************************************************************************)
\* const requiredVars = [...]   (apiHelpers.ts:89-95)
RequiredVars == {"VITE_BACKEND_BASE_URL", "VITE_UNIPROT_FTP_URL",
                 "VITE_YOUTUBE_EMBED_BASE_URL", "VITE_DEFAULT_VIDEO_ID",
                 "VITE_DEFAULT_IMAGE_URL"}
\* validateEnvironment()   (apiHelpers.ts:88-105)
ValidateEnvironment(env) ==
    [valid |-> Cardinality(RequiredVars \ env) = 0, missing |-> RequiredVars \ env]

\* A render of App: the function body runs with the state of the moment.
\* The first render schedules both effects; a later one schedules the
\* preload effect when envValid differs from the render before
\* (App.tsx:21, 30).
AppRender(env) ==
    /\ app.pc = "unmounted" \/ (app.pc = "idle" /\ app.pending)
    /\ app' = [app EXCEPT
                  !.env = IF app.pc = "unmounted" THEN env ELSE @,
                  !.shown = app.envValid,
                  !.pending = FALSE,
                  !.pc = IF app.pc = "unmounted" THEN "validate"
                         ELSE IF app.envValid # app.shown THEN "preload"
                         ELSE "idle"]
    /\ UNCHANGED <<hero, views, text, parsed, svc, now, cacheVars, ft, fr, loaderVars>>

\* The first effect   (App.tsx:13-21)
AppValidateEffect ==
    /\ app.pc = "validate"
    /\ LET r == ValidateEnvironment(app.env) IN
          app' = [app EXCEPT !.envValid = r.valid, !.missingVars = r.missing,
                             !.pending = TRUE, !.validated = TRUE,
                             !.pc = "preload"]
    /\ UNCHANGED <<hero, views, text, parsed, svc, now, cacheVars, ft, fr, loaderVars>>

\* The second effect   (App.tsx:24-30): envValid is the value of the render
\* the effect belongs to; preloadUniProtData() runs to its first await.
AppPreloadEffect ==
    /\ app.pc = "preload"
    /\ app' = [app EXCEPT !.pc = "idle"]
    /\ IF app.shown
       THEN /\ Len(callers) < MaxCallers
            /\ \/ CallLoad("preloadUniProtData", {})
               \/ CallSkip("preloadUniProtData", {})
       ELSE UNCHANGED <<hero, views, text, parsed, svc, now, cacheVars, ft, fr,
                        loaderVars>>

\* The request of the species list and the promise reactions go on as in
\* the loader's specification.
NextApp ==
    \/ \E env \in SUBSET RequiredVars : AppRender(env)
    \/ AppValidateEffect
    \/ AppPreloadEffect
    \/ \E id \in 1..Len(loads), st \in LoaderStatuses : LoadResponseArrives(id, st)
    \/ \E id \in 1..Len(loads) : LoadFetchFails(id)
    \/ \E id \in 1..Len(loads) : LoadTimerFires(id)
    \/ \E id \in 1..Len(loads), body \in LoaderBodies, quotaOk \in BOOLEAN :
          LoadBodyArrives(id, body, quotaOk)
    \/ \E id \in 1..Len(loads) : RunReaction(id)
    \/ LoaderAdvance

SpecApp == InitCommon /\ [][NextApp]_vars

\* C38: in App, preloadUniProtData is started, and the species list
\* requested, only once validateEnvironment has reported the environment
\* valid; with a required variable missing neither ever happens.
C38_PreloadOnlyWhenValid ==
    (Len(callers) > 0 \/ fetchCount > 0) =>
        /\ app.validated
        /\ ValidateEnvironment(app.env).valid

(***************************************************************************)
(* The HeroSection component   (src/src/components/HeroSection.tsx:8-78).  *)
(* hero holds the state cells selectedSpecies, speciesImageUrl and         *)
(* loadingImage ("" for null) and reqs, the runs of fetchSpeciesImage:     *)
(*   species   the selectedSpecies the run closed over                     *)
(*   pc        "fetching" (await fetch), "parsing" (await response.json()),*)
(*             "done"                                                      *)
(*   image     history: what the run passed to setSpeciesImageUrl          *)
(***************************************************************************)
\* What response.json() gives is a document with data.image.url ("image":
\* the image of the species asked for, named here by the species), one
\* without ("noImage"), or a rejection ("invalid": the body is not JSON).
\* result.data?.image?.url || null   (HeroSection.tsx:62)
ImageUrlOf(species, body) == IF body = "image" THEN species ELSE ""
\* const displayImageUrl = speciesImageUrl || VITE_DEFAULT_IMAGE_URL
\* (HeroSection.tsx:89-90)
DisplayImageUrl(url) == IF url # "" THEN url ELSE "VITE_DEFAULT_IMAGE_URL"

\* handleSpeciesSelect(species) and the effect its render schedules
\* (HeroSection.tsx:37-41, 44-78): fetchSpeciesImage() runs to its await.
\* Selecting the species object already selected changes no state.
HeroSelect(species) ==
    /\ Len(hero.reqs) < MaxSelections
    /\ species # hero.selectedSpecies
    /\ hero' = [hero EXCEPT
                   !.selectedSpecies = species,
                   !.loadingImage = TRUE,
                   !.reqs = Append(@, [species |-> species, pc |-> "fetching",
                                       image |-> ""])]
    /\ UNCHANGED <<app, views, text, parsed, svc, now, cacheVars, ft, fr, loaderVars>>

\* After await fetch(...)   (HeroSection.tsx:53-67, 71-73): a response that
\* is not ok sets the image to null and ends the run through finally.
HeroResponseArrives(r, ok) ==
    /\ hero.reqs[r].pc = "fetching"
    /\ hero' = IF ok
               THEN [hero EXCEPT !.reqs[r].pc = "parsing"]
               ELSE [hero EXCEPT !.reqs[r].pc = "done",
                                 !.speciesImageUrl = "",
                                 !.loadingImage = FALSE]
    /\ UNCHANGED <<app, views, text, parsed, svc, now, cacheVars, ft, fr, loaderVars>>

\* fetch rejects: catch and finally   (HeroSection.tsx:68-73)
HeroFetchFails(r) ==
    /\ hero.reqs[r].pc = "fetching"
    /\ hero' = [hero EXCEPT !.reqs[r].pc = "done",
                            !.speciesImageUrl = "",
                            !.loadingImage = FALSE]
    /\ UNCHANGED <<app, views, text, parsed, svc, now, cacheVars, ft, fr, loaderVars>>

\* After await response.json()   (HeroSection.tsx:61-64, 68-73)
HeroBodyArrives(r, body) ==
    /\ hero.reqs[r].pc = "parsing"
    /\ hero' = [hero EXCEPT
                   !.reqs[r].pc = "done",
                   !.reqs[r].image = ImageUrlOf(hero.reqs[r].species, body),
                   !.speciesImageUrl = ImageUrlOf(hero.reqs[r].species, body),
                   !.loadingImage = FALSE]
    /\ UNCHANGED <<app, views, text, parsed, svc, now, cacheVars, ft, fr, loaderVars>>

NextHero ==
    \/ \E species \in {"Canis lupus", "Felis catus"} : HeroSelect(species)
    \/ \E r \in 1..Len(hero.reqs), ok \in BOOLEAN : HeroResponseArrives(r, ok)
    \/ \E r \in 1..Len(hero.reqs) : HeroFetchFails(r)
    \/ \E r \in 1..Len(hero.reqs), body \in {"image", "noImage", "invalid"} :
          HeroBodyArrives(r, body)

SpecHero == InitCommon /\ [][NextHero]_vars

\* C39: once every species-image request has settled, the image displayed
\* is the one fetched for the selected species, by the request of its
\* selection, or the default image if that request gave none, whatever
\* order the responses of earlier selections arrived in.
C39_ImageOfCurrentSelection ==
    (Len(hero.reqs) > 0 /\ \A r \in 1..Len(hero.reqs) : hero.reqs[r].pc = "done") =>
        LET last == hero.reqs[Len(hero.reqs)] IN
        /\ last.species = hero.selectedSpecies
        /\ DisplayImageUrl(hero.speciesImageUrl) = DisplayImageUrl(last.image)

====
